---- MODULE Spec2Model ----
\* A model of the iocontrol I/O manager (src/src/iocontrol/core/manager.py) and of
\* the backend interface it drives (src/src/iocontrol/backends.py).
\*
\* The manager runs on one asyncio event loop.  A step of the model is what one
\* task executes between two suspension points (an await that really suspends);
\* an uncontended asyncio.Lock is taken without suspending, so it does not end a
\* step.  Three tasks are modelled: "ctl" issues the lifecycle calls
\* (add_backend, on_change, configure_from_dict, start, stop) one after the
\* other, "caller" issues write and read calls one after the other, and the
\* scheduler task created by start() runs _polling_loop.  Worker threads run the
\* synchronous change callbacks handed to asyncio.to_thread.
\*
\* Two further components are modelled beside the manager, each driven by one
\* sequential caller: RuntimeConfigManager (src/src/iocontrol/config.py), every
\* call of which is one step, and one expander chip
\* (src/src/iocontrol/backends/mcp23017.py, mcp23008.py), whose calls suspend at
\* each bus write and at a lock that is held.
EXTENDS Integers, Sequences, FiniteSets, TLC

\* ------------------------------------------------------------------ bounds
MaxConfigure == 2
MaxStart == 2
MaxStop == 2
MaxOps == 2
MaxHw == 1
MaxCallbacks == 2
MaxCMOps == 3
MaxOverflow == 2
MaxChipOps == 2
MaxBusErrors == 1
MaxDevOps == 17
MaxOtherRegister == 2
MaxBackendOps == 2
MaxSimOps == 3
MaxPoints == 3
MaxTasks == 2
MaxLifecycleCalls == 3
MaxNamedPoints == 2

\* ------------------------------------------------------------------ values
None == "None"
FalseV == "False"
TrueV == "True"
Values == {FalseV, TrueV}

Missing == "<missing>"
OutputTypes == {"digital_output", "analog_output"}
IoTypes == {"digital_input", "digital_output", "analog_input", "analog_output"}

BackendNames == {"simulator", "mcp"}

\* Python dict helpers
EmptyDict == [x \in {} |-> None]
Get(d, k) == IF k \in DOMAIN d THEN d[k] ELSE None
Put(d, k, v) == [x \in (DOMAIN d) \cup {k} |-> IF x = k THEN v ELSE d[x]]
Update(d, e) == [x \in (DOMAIN d) \cup (DOMAIN e) |-> IF x \in DOMAIN e THEN e[x] ELSE d[x]]
Restrict(d, S) == [x \in (DOMAIN d) \cap S |-> d[x]]

\* ------------------------------------------------------------------ inputs
\* The point_config dictionaries handed to configure_from_dict.  ref is the
\* leading token of hardware_ref, which is all the routing looks at.
PIn == [name |-> "in1", io_type |-> "digital_input", ref |-> "sim", critical |-> TRUE]
POut == [name |-> "out1", io_type |-> "digital_output", ref |-> "sim", critical |-> FALSE]
PBadType == [name |-> "out1", io_type |-> "invalid_type", ref |-> "sim", critical |-> FALSE]
PNoType == [name |-> "out1", io_type |-> Missing, ref |-> "sim", critical |-> FALSE]
PMcp == [name |-> "m1", io_type |-> "analog_output", ref |-> "mcp", critical |-> TRUE]
PNoRoute == [name |-> "m1", io_type |-> "digital_output", ref |-> "gpio", critical |-> FALSE]

Configs == << <<PIn, POut>>, <<PMcp, POut>>, <<PIn, PBadType>>, <<PNoType, PIn>>, <<PNoRoute>> >>

\* Every name a caller may use; a name is unknown to the manager while no
\* accepted configuration holds it.
Names == {"in1", "out1", "m1"}
\* Insertion order of the dictionaries the code iterates over
NameOrder == <<"in1", "m1", "out1">>

VARIABLES
    backends, points, current_states, critical_points, change_callbacks,
    _running, _polling_task, _pending_writes, _state_lock, metrics,
    sim_state, sim_points, sim_initialized, closed,
    ctl, caller, pt, wtasks, jobs,
    events, received, lastBatch, drainCalls, lastAcc, written, latched,
    lastOp, pre, cfgRet, cfgEverOk, cnt

mgrVars == <<backends, points, current_states, critical_points, change_callbacks, _running, _polling_task, _pending_writes, _state_lock, metrics>>
simVars == <<sim_state, sim_points, sim_initialized, closed>>
taskVars == <<ctl, caller, pt, wtasks, jobs>>
obsVars == <<events, received, lastBatch, drainCalls, lastAcc, written, latched, lastOp, pre, cfgRet, cfgEverOk, cnt>>

\* RuntimeConfigManager (src/src/iocontrol/config.py) and what its caller saw
VARIABLES cm_config, cm_history, cm_version, cm_callbacks, cm_last, cm_calls

cmVars == <<cm_config, cm_history, cm_version, cm_callbacks, cm_last, cm_calls>>

\* what the I/O manager's operations leave alone
\* an expander chip (src/src/iocontrol/backends/mcp23017.py, mcp23008.py), the
\* call its caller is in, and the register writes that call put on the bus
VARIABLES chip, chip_call, bus, chip_cnt
chipVars == <<chip, chip_call, bus, chip_cnt>>
\* the I2C transport (src/src/iocontrol/backends/common/i2c.py), the call its caller is in, and what reached the bus
VARIABLES dev, dev_call, dev_bus, dev_cnt
devVars == <<dev, dev_call, dev_bus, dev_cnt>>
\* the MCP23017 backend (src/src/iocontrol/backends/mcp23017.py, MCPBackend): the chips it holds, the ids read_all_points returned, and what the last read_point or write_point did
VARIABLES mb_chips, mb_ids, mb_last, mb_cnt
mbVars == <<mb_chips, mb_ids, mb_last, mb_cnt>>
\* the test double backends.simulated.SimulatedBackend (src/src/iocontrol/backends/simulated.py) and the last write_point on it
VARIABLES sbk, sbk_last, sbk_cnt
sbkVars == <<sbk, sbk_last, sbk_cnt>>
\* the configuration validator (src/src/iocontrol/validation.py): the last validate_io_config call and the last call through the validation gate
VARIABLES vl, gate
vlVars == <<vl, gate>>
\* the last configure_pin call of the expander chip's user
VARIABLES pin_call
pinVars == <<pin_call>>
\* IoManager's lifecycle under two concurrent callers of start and stop: the flag, the task reference, every task created, each caller's position
VARIABLES lc_running, lc_polling_task, lc_tasks, lc_callers, lc_cnt
lcVars == <<lc_running, lc_polling_task, lc_tasks, lc_callers, lc_cnt>>
\* MCPBackend.write_points: the cached port bytes of the backend's chips and the last write_points call
VARIABLES wp_chips, wp_call
wpVars == <<wp_chips, wp_call>>
extVars == <<cmVars, chipVars, devVars, mbVars, sbkVars, vlVars, pinVars, lcVars, wpVars>>
\* what the other components' operations leave alone
ioVars == <<mgrVars, simVars, taskVars, obsVars>>
\* what the configuration manager's operations leave alone
cmRest == <<ioVars, chipVars, devVars, mbVars, sbkVars, vlVars, pinVars, lcVars, wpVars>>
\* what the chip's operations leave alone
chipRest == <<ioVars, cmVars, devVars, mbVars, sbkVars, vlVars, pinVars, lcVars, wpVars>>
\* what this component's operations leave alone
devRest == <<ioVars, cmVars, chipVars, mbVars, sbkVars, vlVars, pinVars, lcVars, wpVars>>
\* what this component's operations leave alone
mbRest == <<ioVars, cmVars, chipVars, devVars, sbkVars, vlVars, pinVars, lcVars, wpVars>>
\* what this component's operations leave alone
sbkRest == <<ioVars, cmVars, chipVars, devVars, mbVars, vlVars, pinVars, lcVars, wpVars>>
\* what this component's operations leave alone
vlRest == <<ioVars, cmVars, chipVars, devVars, mbVars, sbkVars, pinVars, lcVars, wpVars>>
\* what this component's operations leave alone
pinRest == <<ioVars, cmVars, chipVars, devVars, mbVars, sbkVars, vlVars, lcVars, wpVars>>
\* what configure_pin, an operation of the chip, leaves alone
configurePinRest == <<ioVars, cmVars, devVars, mbVars, sbkVars, vlVars, lcVars, wpVars>>
\* what this component's operations leave alone
lcRest == <<ioVars, cmVars, chipVars, devVars, mbVars, sbkVars, vlVars, pinVars, wpVars>>
\* what this component's operations leave alone
wpRest == <<ioVars, cmVars, chipVars, devVars, mbVars, sbkVars, vlVars, pinVars, lcVars>>
vars == <<mgrVars, simVars, taskVars, obsVars, cmVars, chipVars, devVars, mbVars, sbkVars, vlVars, pinVars, lcVars, wpVars>>

\* ------------------------------------------------------------------ routing
\* IoManager._get_backend_name_for_point
BackendNameFor(pts, name) == IF name \notin DOMAIN pts THEN None ELSE IF pts[name].ref = "sim" THEN "simulator" ELSE IF pts[name].ref = "mcp" THEN "mcp" ELSE None

\* IoManager._get_backend_for_point: the registered backend, or None
BackendForPoint(bs, p) == IF p.ref = "sim" /\ "simulator" \in bs THEN "simulator" ELSE IF p.ref = "mcp" /\ "mcp" \in bs THEN "mcp" ELSE None

\* ------------------------------------------------------------------ metrics
ZeroMetrics == [rc |-> 0, re |-> 0, wc |-> 0, we |-> 0]

\* OperationMetrics.update through BackendMetrics.update_read / update_write
UpdateOp(m, op, err) == IF op = "read" THEN [m EXCEPT !.rc = @ + 1, !.re = @ + (IF err THEN 1 ELSE 0)] ELSE [m EXCEPT !.wc = @ + 1, !.we = @ + (IF err THEN 1 ELSE 0)]

\* PerformanceMonitor.record_operation; stale is the set of entries the periodic
\* cleanup evicts in this call (never the entry just updated)
RecordOperation(ms, key, op, err, stale) ==
    LET base == IF key \in DOMAIN ms THEN ms ELSE Put(ms, key, ZeroMetrics)
        upd == [base EXCEPT ![key] = UpdateOp(@, op, err)]
    IN Restrict(upd, (DOMAIN upd) \ stale)

\* the entries a cleanup may evict while key is being recorded
Evictable(key, stale) == stale \subseteq ((DOMAIN metrics) \ {key})

\* ------------------------------------------------------------------ state lock
\* asyncio.Lock: taken at once when free and nobody waits, else FIFO
LockFree == ~_state_lock.locked /\ _state_lock.waiters = <<>>
LockTurn(t) == ~_state_lock.locked /\ _state_lock.waiters # <<>> /\ Head(_state_lock.waiters) = t
LockEnqueue(t) == [_state_lock EXCEPT !.waiters = Append(@, t)]
LockDequeue == [_state_lock EXCEPT !.waiters = Tail(@)]
LockDrop(t) == [_state_lock EXCEPT !.waiters = SelectSeq(@, LAMBDA w: w # t)]

\* ------------------------------------------------------------------ changes
\* a comparison that lets every value through
DiffersAlways(old, new) == TRUE

\* old_value != new_value
Differs(old, new) == old # new

\* "if changes:" before _notify_changes in the polling passes
ShouldNotify(batch) == batch # {}

\* an old value that is False whatever the cache holds
old_value_false(states, point_name) == FalseV

\* old_value = self.current_states.get(point_name)
old_value(states, point_name) == Get(states, point_name)

\* StateChange.create; the index in events is its timestamp
MkChange(name, old, new, src) == [point |-> name, old |-> old, new |-> new, src |-> src, latched |-> latched[name]]

\* the callbacks on_change may be given: a coroutine function or a plain
\* function, returning or raising an Exception
CallbackKinds == {"sync", "async", "sync_raises", "async_raises"}
AsyncKinds == {"async", "async_raises"}
RaisingKinds == {"sync_raises", "async_raises"}

\* a notification loop that an exception of a callback ends
NotifyStopsOnRaise(kind) == kind \notin RaisingKinds

\* "except Exception" inside the loop of _notify_changes: the error is logged
\* and the loop goes on to the next callback
NotifyGoesOn(kind) == TRUE

\* _notify_changes hands the batch to callback i: awaited directly when it is a
\* coroutine function, queued for a worker thread (asyncio.to_thread) otherwise
Invoke(t, batch, i) ==
    IF change_callbacks[i] \in AsyncKinds
    THEN /\ received' = [received EXCEPT ![i] = Append(@, batch)]
         /\ UNCHANGED jobs
    ELSE /\ jobs' = jobs \cup {[cb |-> i, batch |-> batch, owner |-> t]}
         /\ UNCHANGED received

CallbackReturned(t, i) == change_callbacks[i] \in AsyncKinds \/ ~(\E j \in jobs : j.owner = t)

\* ------------------------------------------------------------------ RuntimeConfigManager: values
\* the point_config dictionaries handed to add_io_point and modify_io_point
CA == [name |-> "a", io_type |-> "digital_input", hardware_ref |-> "sim_0"]
CB == [name |-> "b", io_type |-> "digital_output", hardware_ref |-> "sim_1"]
CBSameRef == [name |-> "b", io_type |-> "digital_output", hardware_ref |-> "sim_0"]
CBadType == [name |-> "c", io_type |-> "invalid_type", hardware_ref |-> "sim_2"]
CNoRef == [name |-> "c", io_type |-> "digital_input", hardware_ref |-> Missing]
CNoName == [name |-> Missing, io_type |-> "digital_input", hardware_ref |-> "sim_2"]
PointConfigs == {CA, CB, CBSameRef, CBadType, CNoRef, CNoName}
NoPointConfig == [name |-> None, io_type |-> None, hardware_ref |-> None]
CMNames == {"a", "b", "c"}

\* the configuration files load_config may read
ConfigFiles == {[x \in {"io_points"} |-> <<CA, CB>>]}

\* what the caller of the last two calls saw: the call, its arguments, its
\* result, the callbacks it invoked, and the version and points it started from
NoCallBefore == [op |-> "none", name |-> None, pc |-> NoPointConfig, v |-> 0 - 1, ret |-> FALSE, ver |-> 0, pts |-> <<>>]
NoCall == [op |-> "none", name |-> None, pc |-> NoPointConfig, v |-> 0 - 1, ret |-> FALSE, notified |-> 0, ver |-> 0, pts |-> <<>>, before |-> NoCallBefore]

\* ------------------------------------------------------------------ expander chips: values
\* MCP23017Config / MCP23008Config: the options initialize looks at
\* (interrupt_pin: None, or the number of the pin as a string)
ChipConfigs ==
    [pull_ups : BOOLEAN, polarity_inversion : BOOLEAN,
     sequential_operation : BOOLEAN, interrupt_pin : {None, "17"}]
DefaultChipConfig ==
    [pull_ups |-> TRUE, polarity_inversion |-> FALSE,
     sequential_operation |-> TRUE, interrupt_pin |-> None]

\* no chip constructed yet
NoChip == [kind |-> "none", config |-> DefaultChipConfig, ports |-> EmptyDict,
           _lock |-> FALSE, _initialized |-> FALSE]
\* the caller is in no call
NoChipCall == [op |-> "none", pc |-> "idle", ret |-> None, pin |-> 0, value |-> FALSE,
               port |-> None, new_state |-> 0, todo |-> <<>>,
               ports |-> EmptyDict, was_initialized |-> FALSE]

\* no configure_pin call yet
NoPinCall == [op |-> "none", pin |-> 0, direction |-> None, pull_up |-> FALSE,
              reads |-> <<>>, current_dir |-> 0, current_pull |-> 0, ret |-> None]

\* ------------------------------------------------------------------ I2C transport: values
\* AsyncI2CDevice.__init__, the address set
NewDevice == [_pending_writes |-> <<>>, _lock |-> FALSE, _batch_lock |-> FALSE,
              shutdown |-> FALSE, closed |-> FALSE]
\* the caller is in no call
NoDevCall == [op |-> "none", pc |-> "idle", ret |-> None, todo |-> <<>>, queued |-> <<>>]

\* ------------------------------------------------------------------ MCPBackend: values
\* no read_point or write_point yet
NoPointCall == [op |-> "none", id |-> <<>>, ret |-> None, address |-> 0 - 1, pin |-> 0 - 1]

\* ------------------------------------------------------------------ backends.simulated: values
\* SimulatedBackend()
NewSimulated == [_states |-> EmptyDict, _initialized |-> FALSE, _write_count |-> 0, _error_count |-> 0]
\* no write_point yet
NoSimWrite == [op |-> "none", point_id |-> None, ret |-> None, states |-> EmptyDict]

\* ------------------------------------------------------------------ validation: values
\* nothing validated yet; no call through the gate yet
NoValidation == [op |-> "none", config |-> EmptyDict, is_valid |-> FALSE, issues |-> <<>>]
NoGateCall == [op |-> "none", config |-> EmptyDict, ret |-> None, original_calls |-> <<>>,
               original_ret |-> None]

\* no write_points call yet
NoWritePoints == [op |-> "none", points |-> <<>>, ret |-> None, writes |-> <<>>, before |-> EmptyDict]

\* ------------------------------------------------------------------ concurrent lifecycle: values
\* the coroutines that call start and stop; a caller in no call.  Tasks are
\* numbered from 1 in creation order, 0 stands for None
LifecycleCallers == {1, 2}
CallerOutside == [pc |-> "idle", task |-> 0, last |-> "none"]

\* ------------------------------------------------------------------ Init
IdlePt == [pc |-> "none", cancel |-> FALSE, first |-> TRUE, normDue |-> FALSE, sec |-> "crit", reads |-> {}, failed |-> {}, returned |-> EmptyDict, results |-> EmptyDict, batch |-> {}, ni |-> 0]
IdleCaller == [pc |-> "idle", point |-> None, value |-> None, batch |-> {}, ni |-> 0]
NoPre == [points |-> EmptyDict, critical |-> {}, states |-> EmptyDict]

Init ==
    /\ backends = {}
    /\ points = EmptyDict
    /\ current_states = EmptyDict
    /\ critical_points = {}
    /\ change_callbacks = <<>>
    /\ _running = FALSE
    /\ _polling_task = None
    /\ _pending_writes = EmptyDict
    /\ _state_lock = [locked |-> FALSE, waiters |-> <<>>]
    /\ metrics = EmptyDict
    /\ sim_state = EmptyDict
    /\ sim_points = EmptyDict
    /\ sim_initialized = FALSE
    /\ closed = {}
    /\ ctl = [pc |-> "idle", cfg |-> 0, last |-> "none"]
    /\ caller = IdleCaller
    /\ pt = IdlePt
    /\ wtasks = {}
    /\ jobs = {}
    /\ events = <<>>
    /\ received = <<>>
    /\ lastBatch = [emitted |-> FALSE, changes |-> {}]
    /\ drainCalls = <<>>
    /\ lastAcc = [n \in Names |-> [value |-> None, n |-> 0]]
    /\ written = [n \in Names |-> None]
    /\ latched = [n \in Names |-> FALSE]
    /\ lastOp = [op |-> "none", point |-> None, ret |-> None, expect |-> None]
    /\ pre = NoPre
    /\ cfgRet = "none"
    /\ cfgEverOk = FALSE
    /\ cnt = [cfg |-> 0, start |-> 0, stop |-> 0, ops |-> 0, hw |-> 0]
    /\ cm_config = EmptyDict
    /\ cm_history = <<>>
    /\ cm_version = 0
    /\ cm_callbacks = 0
    /\ cm_last = NoCall
    /\ cm_calls = 0
    /\ chip = NoChip
    /\ chip_call = NoChipCall
    /\ bus = <<>>
    /\ chip_cnt = [ops |-> 0, errors |-> 0]
    /\ dev = NewDevice
    /\ dev_call = NoDevCall
    /\ dev_bus = <<>>
    /\ dev_cnt = [ops |-> 0, other |-> 0]
    /\ mb_chips = {}
    /\ mb_ids = {}
    /\ mb_last = NoPointCall
    /\ mb_cnt = 0
    /\ sbk = NewSimulated
    /\ sbk_last = NoSimWrite
    /\ sbk_cnt = 0
    /\ vl = NoValidation
    /\ gate = NoGateCall
    /\ pin_call = NoPinCall
    /\ lc_running = FALSE
    /\ lc_polling_task = 0
    /\ lc_tasks = <<>>
    /\ lc_callers = [c \in LifecycleCallers |-> CallerOutside]
    /\ lc_cnt = 0
    /\ wp_chips = EmptyDict
    /\ wp_call = NoWritePoints

\* ------------------------------------------------------------------ scheduler: drain and pass sequencing
\* a pending map that keeps the first value queued for a name
PendingPutFirst(pw, name, value) == IF name \in DOMAIN pw THEN pw ELSE Put(pw, name, value)

\* dict assignment self._pending_writes[point_name] = value
PendingPut(pw, name, value) == Put(pw, name, value)

\* SimulatedBackend.write_point's checks before it touches the state
SimWritable(name) == name \in DOMAIN sim_points /\ sim_points[name] \in OutputTypes

\* _process_pending_writes up to its gather; base is the task record so far
Drain(base) ==
    IF DOMAIN _pending_writes = {}
    THEN /\ pt' = [base EXCEPT !.pc = "sleep"]
         /\ UNCHANGED <<_pending_writes, wtasks, drainCalls, lastAcc>>
    ELSE LET names == SelectSeq(NameOrder, LAMBDA n: n \in DOMAIN _pending_writes /\ BackendNameFor(points, n) \in backends)
             calls == [i \in 1..Len(names) |-> [name |-> names[i], value |-> _pending_writes[names[i]], expect |-> lastAcc[names[i]].value, n |-> lastAcc[names[i]].n]]
             children == {[name |-> calls[i].name, value |-> calls[i].value, be |-> BackendNameFor(points, calls[i].name), ok |-> SimWritable(calls[i].name), orphan |-> FALSE] : i \in 1..Len(names)}
         IN /\ _pending_writes' = EmptyDict
            /\ drainCalls' = calls
            /\ lastAcc' = [n \in Names |-> [lastAcc[n] EXCEPT !.n = 0]]
            /\ wtasks' = wtasks \cup children
            /\ pt' = [base EXCEPT !.pc = IF children = {} THEN "sleep" ELSE "drain_wait"]

\* the normal tier of one loop iteration: _poll_all_points up to its gather, or
\* straight on to the drain
NormStart(base) ==
    IF base.normDue /\ backends # {}
    THEN /\ pt' = [base EXCEPT !.pc = "read", !.sec = "norm", !.reads = backends]
         /\ UNCHANGED <<_pending_writes, wtasks, drainCalls, lastAcc>>
    ELSE Drain(base)

\* a loop that drains right after the critical pass
SchedContinueDrains(base, sec) == Drain(base)

\* what follows a finished polling pass in _polling_loop
SchedContinue(base, sec) == IF sec = "crit" THEN NormStart(base) ELSE Drain(base)

\* the backends _poll_critical_points reads: those owning a critical point
CriticalBackends == {b \in backends : \E n \in critical_points : BackendNameFor(points, n) = b}

\* ------------------------------------------------------------------ scheduler task
SchedLive == pt.pc \notin {"none", "done"}

\* One pass of "while self._running": sample the clock, decide which tiers are
\* due (both are on the first pass: last_*_poll = 0), start the first await.
SchedIter(critDue, normDue) ==
    /\ pt.pc \in {"new", "sleep"}
    /\ ~pt.cancel
    /\ pt.first => (critDue /\ normDue)
    /\ LET base == [pt EXCEPT !.first = FALSE, !.normDue = normDue, !.returned = EmptyDict, !.results = EmptyDict, !.batch = {}, !.ni = 0, !.reads = {}, !.failed = {}, !.sec = "crit"]
       IN IF ~_running
          THEN /\ pt' = [base EXCEPT !.pc = "done"]
               /\ UNCHANGED <<_pending_writes, wtasks, drainCalls, lastAcc>>
          ELSE IF critDue /\ critical_points # {} /\ CriticalBackends # {}
               THEN /\ pt' = [base EXCEPT !.pc = "read", !.reads = CriticalBackends]
                    /\ UNCHANGED <<_pending_writes, wtasks, drainCalls, lastAcc>>
               ELSE NormStart(base)
    /\ UNCHANGED <<backends, points, current_states, critical_points, change_callbacks, _running, _polling_task, _state_lock, metrics>>
    /\ UNCHANGED <<simVars, ctl, caller, jobs>>
    /\ UNCHANGED <<events, received, lastBatch, written, latched, lastOp, pre, cfgRet, cfgEverOk, cnt>>
    /\ UNCHANGED extVars

\* HardwareBackend.read_all of every backend in reads, as gather(...,
\* return_exceptions=True) collects it: the simulator returns a copy of its
\* state, the expander placeholder returns {}, a read that raises is skipped
ReadAll(reads, simFail) == IF "simulator" \in reads /\ ~simFail THEN sim_state ELSE EmptyDict

\* a gather that gives up every result when one read raises
GatheredAllOrNothing(results, failed) == IF failed = {} THEN results ELSE EmptyDict

\* gather(*read_tasks, return_exceptions=True) and the passes' "isinstance(result,
\* Exception): continue": a read that raised costs only its own result
Gathered(results, failed) == results

\* the backends whose read_all raised in a pass
FailedReads(simFail, mcpFail) == (IF simFail THEN {"simulator"} ELSE {}) \cup (IF mcpFail THEN {"mcp"} ELSE {})

\* a pass that a raising read ends, and the scheduler task with it
PassEndsOnRaise(failed) == IF failed = {} THEN "proc" ELSE "done"

\* where a pass goes after its gather: return_exceptions=True hands the
\* exceptions over as results, so the pass goes on to process what it has
PassAfterReads(failed) == "proc"

\* the backend reads of a polling pass complete; the simulator's read_all or
\* the expander's may have raised
SchedReadDone(simFail, mcpFail) ==
    /\ pt.pc = "read"
    /\ ~pt.cancel
    /\ FailedReads(simFail, mcpFail) \subseteq pt.reads
    /\ pt' = [pt EXCEPT !.pc = PassAfterReads(FailedReads(simFail, mcpFail)), !.failed = FailedReads(simFail, mcpFail), !.returned = ReadAll(pt.reads, simFail), !.results = Gathered(ReadAll(pt.reads, simFail), FailedReads(simFail, mcpFail))]
    /\ UNCHANGED <<mgrVars, simVars, ctl, caller, wtasks, jobs, obsVars>>
    /\ UNCHANGED extVars

\* a critical pass that takes every name the backend reports
ChangedAnyName(results, sec) == {n \in DOMAIN results : Differs(Get(current_states, n), results[n])}

\* names whose reported value differs from the cached one (critical names only
\* in the critical pass)
Changed(results, sec) == {n \in DOMAIN results : (sec = "crit" => n \in critical_points) /\ Differs(Get(current_states, n), results[n])}

\* "async with self._state_lock" onwards in _poll_critical_points and
\* _poll_all_points, with the lock available
SchedProcess(lockAfter) ==
    LET ch == Changed(pt.results, pt.sec)
        evNames == SelectSeq(NameOrder, LAMBDA n: n \in ch /\ n \in DOMAIN points)
        newEvents == [i \in 1..Len(evNames) |-> MkChange(evNames[i], old_value(current_states, evNames[i]), pt.results[evNames[i]], pt.sec)]
        batch == {Len(events) + i : i \in 1..Len(evNames)}
        base == [pt EXCEPT !.returned = EmptyDict, !.results = EmptyDict, !.reads = {}]
    IN /\ current_states' = [x \in (DOMAIN current_states) \cup ch |-> IF x \in ch THEN pt.results[x] ELSE current_states[x]]
       /\ events' = events \o newEvents
       /\ _state_lock' = lockAfter
       /\ IF ShouldNotify(batch)
          THEN /\ lastBatch' = [emitted |-> TRUE, changes |-> batch]
               /\ IF change_callbacks = <<>>
                  THEN /\ SchedContinue(base, pt.sec)
                       /\ UNCHANGED <<received, jobs>>
                  ELSE /\ Invoke("sched", batch, 1)
                       /\ pt' = [base EXCEPT !.pc = "notify", !.batch = batch, !.ni = 1]
                       /\ UNCHANGED <<_pending_writes, wtasks, drainCalls, lastAcc>>
          ELSE /\ SchedContinue(base, pt.sec)
               /\ UNCHANGED <<lastBatch, received, jobs>>
       /\ UNCHANGED <<backends, points, critical_points, change_callbacks, _running, _polling_task, metrics>>
       /\ UNCHANGED <<simVars, ctl, caller>>
       /\ UNCHANGED <<written, latched, lastOp, pre, cfgRet, cfgEverOk, cnt>>

\* the pass resumes with its results and the state lock is free
SchedProc ==
    /\ pt.pc = "proc"
    /\ ~pt.cancel
    /\ LockFree
    /\ SchedProcess(_state_lock)
    /\ UNCHANGED extVars

\* the pass resumes with its results and has to queue for the state lock
SchedProcWait ==
    /\ pt.pc = "proc"
    /\ ~pt.cancel
    /\ ~LockFree
    /\ pt' = [pt EXCEPT !.pc = "lock"]
    /\ _state_lock' = LockEnqueue("sched")
    /\ UNCHANGED <<backends, points, current_states, critical_points, change_callbacks, _running, _polling_task, _pending_writes, metrics>>
    /\ UNCHANGED <<simVars, ctl, caller, wtasks, jobs, obsVars>>
    /\ UNCHANGED extVars

\* the queued pass is handed the state lock
SchedProcWake ==
    /\ pt.pc = "lock"
    /\ ~pt.cancel
    /\ LockTurn("sched")
    /\ SchedProcess(LockDequeue)
    /\ UNCHANGED extVars

\* _notify_changes of a polling pass: callback ni has returned, go on to the
\* next one or back to _polling_loop
SchedNotifyNext ==
    /\ pt.pc = "notify"
    /\ ~pt.cancel
    /\ CallbackReturned("sched", pt.ni)
    /\ IF pt.ni < Len(change_callbacks) /\ NotifyGoesOn(change_callbacks[pt.ni])
       THEN /\ Invoke("sched", pt.batch, pt.ni + 1)
            /\ pt' = [pt EXCEPT !.ni = @ + 1]
            /\ UNCHANGED <<_pending_writes, wtasks, drainCalls, lastAcc>>
       ELSE /\ SchedContinue([pt EXCEPT !.batch = {}, !.ni = 0], pt.sec)
            /\ UNCHANGED <<received, jobs>>
    /\ UNCHANGED <<backends, points, current_states, critical_points, change_callbacks, _running, _polling_task, _state_lock, metrics>>
    /\ UNCHANGED <<simVars, ctl, caller>>
    /\ UNCHANGED <<events, lastBatch, written, latched, lastOp, pre, cfgRet, cfgEverOk, cnt>>
    /\ UNCHANGED extVars

\* one write_point task of the drain's gather finishes: SimulatedBackend stores
\* the value when its checks passed; the expander placeholder returns False or,
\* as any HardwareBackend may, raises, which ends the gather at once and leaves
\* the sibling tasks running on their own
WriteTaskDone(c, raises) ==
    /\ c \in wtasks
    /\ raises => c.be = "mcp"
    /\ sim_state' = IF c.be = "simulator" /\ c.ok THEN Put(sim_state, c.name, c.value) ELSE sim_state
    /\ wtasks' = IF raises /\ ~c.orphan THEN {[w EXCEPT !.orphan = TRUE] : w \in wtasks \ {c}} ELSE wtasks \ {c}
    /\ UNCHANGED <<mgrVars, sim_points, sim_initialized, closed, ctl, caller, pt, jobs, obsVars>>
    /\ UNCHANGED extVars

\* the drain's gather has returned or raised; _polling_loop goes to sleep
SchedDrainDone ==
    /\ pt.pc = "drain_wait"
    /\ ~pt.cancel
    /\ ~(\E w \in wtasks : ~w.orphan)
    /\ pt' = [pt EXCEPT !.pc = "sleep"]
    /\ UNCHANGED <<mgrVars, simVars, ctl, caller, wtasks, jobs, obsVars>>
    /\ UNCHANGED extVars

\* task.cancel() takes effect at the await the task is suspended in: the
\* CancelledError ends _polling_loop; the gather's children are cancelled with
\* it, a callback already handed to a worker thread is not
SchedCancelled ==
    /\ SchedLive
    /\ pt.cancel
    /\ pt' = [IdlePt EXCEPT !.pc = "done"]
    /\ _state_lock' = LockDrop("sched")
    /\ wtasks' = {w \in wtasks : w.orphan}
    /\ jobs' = {IF j.owner = "sched" THEN [j EXCEPT !.owner = "none"] ELSE j : j \in jobs}
    /\ UNCHANGED <<backends, points, current_states, critical_points, change_callbacks, _running, _polling_task, _pending_writes, metrics>>
    /\ UNCHANGED <<simVars, ctl, caller, obsVars>>
    /\ UNCHANGED extVars

\* a worker thread of the default executor runs a queued synchronous callback
ThreadRun(j) ==
    /\ j \in jobs
    /\ received' = [received EXCEPT ![j.cb] = Append(@, j.batch)]
    /\ jobs' = jobs \ {j}
    /\ UNCHANGED <<mgrVars, simVars, ctl, caller, pt, wtasks>>
    /\ UNCHANGED <<events, lastBatch, drainCalls, lastAcc, written, latched, lastOp, pre, cfgRet, cfgEverOk, cnt>>
    /\ UNCHANGED extVars

\* ------------------------------------------------------------------ IoManager.write
\* write's checks without the io_type test
WritableAnyType(name) == name \in DOMAIN points

\* the checks at the head of write: the point exists and is an output
Writable(name) == name \in DOMAIN points /\ points[name].io_type \in OutputTypes

\* write's normal exit: record the operation, return True
WriteReturn(p, v, stale) ==
    /\ Evictable(BackendNameFor(points, p), stale)
    /\ metrics' = RecordOperation(metrics, BackendNameFor(points, p), "write", FALSE, stale)
    /\ caller' = IdleCaller
    /\ lastOp' = [op |-> "write", point |-> p, ret |-> TrueV, expect |-> None]
    /\ written' = [written EXCEPT ![p] = v]

\* write's except branch: the ValueError of a failed check is caught, recorded
\* as a failed write operation, and False is returned
WriteReject(p, v, stale) ==
    /\ caller.pc = "idle"
    /\ cnt.ops < MaxOps
    /\ ~Writable(p)
    /\ Evictable(BackendNameFor(points, p), stale)
    /\ metrics' = RecordOperation(metrics, BackendNameFor(points, p), "write", TRUE, stale)
    /\ lastOp' = [op |-> "write", point |-> p, ret |-> FalseV, expect |-> None]
    /\ cnt' = [cnt EXCEPT !.ops = @ + 1]
    /\ UNCHANGED <<backends, points, current_states, critical_points, change_callbacks, _running, _polling_task, _pending_writes, _state_lock>>
    /\ UNCHANGED <<simVars, taskVars>>
    /\ UNCHANGED <<events, received, lastBatch, drainCalls, lastAcc, written, latched, pre, cfgRet, cfgEverOk>>
    /\ UNCHANGED extVars

\* "async with self._state_lock" onwards in write, with the lock available:
\* latch the value, create the StateChange when it differs, start notifying
WriteLocked(p, v, lockAfter, stale) ==
    LET old == old_value(current_states, p)
        batch == {Len(events) + 1}
    IN /\ current_states' = Put(current_states, p, v)
       /\ _state_lock' = lockAfter
       /\ latched' = [latched EXCEPT ![p] = TRUE]
       /\ IF Differs(old, v)
          THEN /\ events' = Append(events, MkChange(p, old, v, "write"))
               /\ lastBatch' = [emitted |-> TRUE, changes |-> batch]
               /\ IF change_callbacks = <<>>
                  THEN /\ WriteReturn(p, v, stale)
                       /\ UNCHANGED <<received, jobs>>
                  ELSE /\ Invoke("caller", batch, 1)
                       /\ caller' = [pc |-> "w_notify", point |-> p, value |-> v, batch |-> batch, ni |-> 1]
                       /\ written' = [written EXCEPT ![p] = None]
                       /\ stale = {}
                       /\ UNCHANGED <<metrics, lastOp>>
          ELSE /\ WriteReturn(p, v, stale)
               /\ UNCHANGED <<events, lastBatch, received, jobs>>

\* write passes its checks and queues the value; the state lock is free
WriteAccept(p, v, stale) ==
    /\ caller.pc = "idle"
    /\ cnt.ops < MaxOps
    /\ Writable(p)
    /\ LockFree
    /\ _pending_writes' = PendingPut(_pending_writes, p, v)
    /\ lastAcc' = [lastAcc EXCEPT ![p] = [value |-> v, n |-> @.n + 1]]
    /\ cnt' = [cnt EXCEPT !.ops = @ + 1]
    /\ WriteLocked(p, v, _state_lock, stale)
    /\ UNCHANGED <<backends, points, critical_points, change_callbacks, _running, _polling_task>>
    /\ UNCHANGED <<simVars, ctl, pt, wtasks>>
    /\ UNCHANGED <<drainCalls, pre, cfgRet, cfgEverOk>>
    /\ UNCHANGED extVars

\* write passes its checks and queues the value, then waits for the state lock
WriteAcceptWait(p, v) ==
    /\ caller.pc = "idle"
    /\ cnt.ops < MaxOps
    /\ Writable(p)
    /\ ~LockFree
    /\ _pending_writes' = PendingPut(_pending_writes, p, v)
    /\ lastAcc' = [lastAcc EXCEPT ![p] = [value |-> v, n |-> @.n + 1]]
    /\ cnt' = [cnt EXCEPT !.ops = @ + 1]
    /\ _state_lock' = LockEnqueue("caller")
    /\ caller' = [pc |-> "w_lock", point |-> p, value |-> v, batch |-> {}, ni |-> 0]
    /\ written' = [written EXCEPT ![p] = None]
    /\ UNCHANGED <<backends, points, current_states, critical_points, change_callbacks, _running, _polling_task, metrics>>
    /\ UNCHANGED <<simVars, ctl, pt, wtasks, jobs>>
    /\ UNCHANGED <<events, received, lastBatch, drainCalls, latched, lastOp, pre, cfgRet, cfgEverOk>>
    /\ UNCHANGED extVars

\* the waiting write is handed the state lock
WriteWake(stale) ==
    /\ caller.pc = "w_lock"
    /\ LockTurn("caller")
    /\ WriteLocked(caller.point, caller.value, LockDequeue, stale)
    /\ UNCHANGED <<backends, points, critical_points, change_callbacks, _running, _polling_task, _pending_writes>>
    /\ UNCHANGED <<simVars, ctl, pt, wtasks>>
    /\ UNCHANGED <<drainCalls, lastAcc, pre, cfgRet, cfgEverOk, cnt>>
    /\ UNCHANGED extVars

\* _notify_changes of a write: callback ni has returned, go on to the next one
\* or finish the write
WriteNotifyNext(stale) ==
    /\ caller.pc = "w_notify"
    /\ CallbackReturned("caller", caller.ni)
    /\ IF caller.ni < Len(change_callbacks) /\ NotifyGoesOn(change_callbacks[caller.ni])
       THEN /\ Invoke("caller", caller.batch, caller.ni + 1)
            /\ caller' = [caller EXCEPT !.ni = @ + 1]
            /\ stale = {}
            /\ UNCHANGED <<metrics, lastOp, written>>
       ELSE /\ WriteReturn(caller.point, caller.value, stale)
            /\ UNCHANGED <<received, jobs>>
    /\ UNCHANGED <<backends, points, current_states, critical_points, change_callbacks, _running, _polling_task, _pending_writes, _state_lock>>
    /\ UNCHANGED <<simVars, ctl, pt, wtasks>>
    /\ UNCHANGED <<events, lastBatch, drainCalls, lastAcc, latched, pre, cfgRet, cfgEverOk, cnt>>
    /\ UNCHANGED extVars

\* ------------------------------------------------------------------ IoManager.read
\* read's exits: the value (recorded as a read operation) or the re-raised error
ReadReturn(p, result, err, stale) ==
    /\ Evictable(BackendNameFor(points, p), stale)
    /\ metrics' = RecordOperation(metrics, BackendNameFor(points, p), "read", err, stale)
    /\ caller' = IdleCaller
    /\ lastOp' = [op |-> "read", point |-> p, ret |-> IF err THEN "raise" ELSE result, expect |-> written[p]]

\* "async with self._state_lock" onwards in read, with the lock available: the
\* cached value, an error for an unknown or unroutable point, or the fallback
\* read of the backend, awaited with the state lock held
ReadLocked(p, lockAfter, stale) ==
    IF p \in DOMAIN current_states
    THEN /\ ReadReturn(p, current_states[p], FALSE, stale)
         /\ _state_lock' = lockAfter
    ELSE IF p \notin DOMAIN points \/ BackendForPoint(backends, points[p]) = None
         THEN /\ ReadReturn(p, None, TRUE, stale)
              /\ _state_lock' = lockAfter
         ELSE /\ caller' = [pc |-> "r_wait", point |-> p, value |-> BackendForPoint(backends, points[p]), batch |-> {}, ni |-> 0]
              /\ _state_lock' = [lockAfter EXCEPT !.locked = TRUE]
              /\ stale = {}
              /\ UNCHANGED <<metrics, lastOp>>

ReadCall(p, stale) ==
    /\ caller.pc = "idle"
    /\ cnt.ops < MaxOps
    /\ LockFree
    /\ cnt' = [cnt EXCEPT !.ops = @ + 1]
    /\ ReadLocked(p, _state_lock, stale)
    /\ UNCHANGED <<backends, points, current_states, critical_points, change_callbacks, _running, _polling_task, _pending_writes>>
    /\ UNCHANGED <<simVars, ctl, pt, wtasks, jobs>>
    /\ UNCHANGED <<events, received, lastBatch, drainCalls, lastAcc, written, latched, pre, cfgRet, cfgEverOk>>
    /\ UNCHANGED extVars

ReadCallWait(p) ==
    /\ caller.pc = "idle"
    /\ cnt.ops < MaxOps
    /\ ~LockFree
    /\ cnt' = [cnt EXCEPT !.ops = @ + 1]
    /\ _state_lock' = LockEnqueue("caller")
    /\ caller' = [pc |-> "r_lock", point |-> p, value |-> None, batch |-> {}, ni |-> 0]
    /\ UNCHANGED <<backends, points, current_states, critical_points, change_callbacks, _running, _polling_task, _pending_writes, metrics>>
    /\ UNCHANGED <<simVars, ctl, pt, wtasks, jobs>>
    /\ UNCHANGED <<events, received, lastBatch, drainCalls, lastAcc, written, latched, lastOp, pre, cfgRet, cfgEverOk>>
    /\ UNCHANGED extVars

ReadWake(stale) ==
    /\ caller.pc = "r_lock"
    /\ LockTurn("caller")
    /\ ReadLocked(caller.point, LockDequeue, stale)
    /\ UNCHANGED <<backends, points, current_states, critical_points, change_callbacks, _running, _polling_task, _pending_writes>>
    /\ UNCHANGED <<simVars, ctl, pt, wtasks, jobs>>
    /\ UNCHANGED <<events, received, lastBatch, drainCalls, lastAcc, written, latched, pre, cfgRet, cfgEverOk, cnt>>
    /\ UNCHANGED extVars

\* the fallback read_all returns (or raises): data.get(point_name) is cached
\* and returned, the state lock is released
ReadFallbackDone(fails, stale) ==
    /\ caller.pc = "r_wait"
    /\ LET p == caller.point
           b == caller.value
           data == IF b = "simulator" THEN sim_state ELSE EmptyDict
       IN IF fails
          THEN /\ ReadReturn(p, None, TRUE, stale)
               /\ UNCHANGED current_states
          ELSE /\ ReadReturn(p, Get(data, p), FALSE, stale)
               /\ current_states' = Put(current_states, p, Get(data, p))
    /\ _state_lock' = [_state_lock EXCEPT !.locked = FALSE]
    /\ UNCHANGED <<backends, points, critical_points, change_callbacks, _running, _polling_task, _pending_writes>>
    /\ UNCHANGED <<simVars, ctl, pt, wtasks, jobs>>
    /\ UNCHANGED <<events, received, lastBatch, drainCalls, lastAcc, written, latched, pre, cfgRet, cfgEverOk, cnt>>
    /\ UNCHANGED extVars

\* ------------------------------------------------------------------ lifecycle calls
CtlIdle(last) == [pc |-> "idle", cfg |-> 0, last |-> last]

\* IoManager.add_backend
AddBackend(b) ==
    /\ ctl.pc = "idle"
    /\ b \notin backends
    /\ backends' = backends \cup {b}
    /\ ctl' = CtlIdle("other")
    /\ UNCHANGED <<points, current_states, critical_points, change_callbacks, _running, _polling_task, _pending_writes, _state_lock, metrics>>
    /\ UNCHANGED <<simVars, caller, pt, wtasks, jobs, obsVars>>
    /\ UNCHANGED extVars

\* IoManager.on_change; kind tells whether the callback is a coroutine function
OnChange(kind) ==
    /\ ctl.pc = "idle"
    /\ Len(change_callbacks) < MaxCallbacks
    /\ change_callbacks' = Append(change_callbacks, kind)
    /\ received' = Append(received, <<>>)
    /\ ctl' = CtlIdle("other")
    /\ UNCHANGED <<backends, points, current_states, critical_points, _running, _polling_task, _pending_writes, _state_lock, metrics>>
    /\ UNCHANGED <<simVars, caller, pt, wtasks, jobs>>
    /\ UNCHANGED <<events, lastBatch, drainCalls, lastAcc, written, latched, lastOp, pre, cfgRet, cfgEverOk, cnt>>
    /\ UNCHANGED extVars

\* IoPoint(...) can be built from the point_config: its io_type is present
\* (else KeyError) and names a member of IoType (else ValueError)
ValidPoint(pc) == pc.io_type \in IoTypes

\* index of the first point_config the loop fails on, 0 when it completes
FirstBad(cfg) == IF \A i \in 1..Len(cfg) : ValidPoint(cfg[i]) THEN 0 ELSE CHOOSE i \in 1..Len(cfg) : ~ValidPoint(cfg[i]) /\ \A k \in 1..(i - 1) : ValidPoint(cfg[k])

\* the points the loop got through before failing (all of them on success)
Parsed(cfg) == IF FirstBad(cfg) = 0 THEN 1..Len(cfg) ELSE 1..(FirstBad(cfg) - 1)

\* self.critical_points after the loop: every parsed critical point was added
CriticalAfterParse(cfg) == critical_points \cup {cfg[i].name : i \in {k \in Parsed(cfg) : cfg[k].critical}}

\* self.points = {point.name: point for point in points}
PointsOf(cfg) == [n \in {cfg[i].name : i \in 1..Len(cfg)} |-> LET i == CHOOSE k \in 1..Len(cfg) : cfg[k].name = n /\ \A m \in (k + 1)..Len(cfg) : cfg[m].name # n IN [io_type |-> cfg[i].io_type, ref |-> cfg[i].ref]]

\* the backends handed a non-empty backend_points list
InitBackends(pts) == {b \in backends : \E n \in DOMAIN pts : BackendForPoint(backends, pts[n]) = b}

Registry == [points |-> points, critical |-> critical_points, states |-> current_states]

\* _initialize_states without the defaults for missing points
InitialStatesNoDefault(results, pts) == Update(current_states, results)

\* _initialize_states after its gather: merge the readings, default the rest
InitialStates(results, pts) ==
    LET merged == Update(current_states, results)
    IN [x \in (DOMAIN merged) \cup (DOMAIN pts) |-> IF x \in DOMAIN merged THEN merged[x] ELSE FalseV]

\* configure_from_dict returns True out of _initialize_states
CfgReturnTrue(results, lockAfter, pts) ==
    /\ current_states' = InitialStates(results, pts)
    /\ _state_lock' = lockAfter
    /\ ctl' = CtlIdle("other")
    /\ cfgRet' = "true"
    /\ cfgEverOk' = TRUE

\* entry of _initialize_states: take the state lock, start reading every
\* backend (with no backend the gather is empty and nothing is awaited)
CfgInitStates(c, pts) ==
    IF ~LockFree
    THEN /\ _state_lock' = LockEnqueue("ctl")
         /\ ctl' = [pc |-> "cfg_lock", cfg |-> c, last |-> ctl.last]
         /\ cfgRet' = "running"
         /\ UNCHANGED <<current_states, cfgEverOk>>
    ELSE IF backends = {}
         THEN CfgReturnTrue(EmptyDict, _state_lock, pts)
         ELSE /\ _state_lock' = [_state_lock EXCEPT !.locked = TRUE]
              /\ ctl' = [pc |-> "cfg_read", cfg |-> c, last |-> ctl.last]
              /\ cfgRet' = "running"
              /\ UNCHANGED <<current_states, cfgEverOk>>

\* configure_from_dict fails while building the points: False is returned
ConfigureParseFail(c) ==
    /\ ctl.pc = "idle"
    /\ cnt.cfg < MaxConfigure
    /\ FirstBad(Configs[c]) # 0
    /\ critical_points' = CriticalAfterParse(Configs[c])
    /\ ctl' = CtlIdle("other")
    /\ pre' = Registry
    /\ cfgRet' = "false"
    /\ cnt' = [cnt EXCEPT !.cfg = @ + 1]
    /\ written' = [n \in Names |-> None]
    /\ latched' = [n \in Names |-> FALSE]
    /\ UNCHANGED <<backends, points, current_states, change_callbacks, _running, _polling_task, _pending_writes, _state_lock, metrics>>
    /\ UNCHANGED <<simVars, caller, pt, wtasks, jobs>>
    /\ UNCHANGED <<events, received, lastBatch, drainCalls, lastAcc, lastOp, cfgEverOk>>
    /\ UNCHANGED extVars

\* configure_from_dict builds the points, replaces the registry and starts the
\* backends' initialize calls
ConfigureBegin(c) ==
    /\ ctl.pc = "idle"
    /\ cnt.cfg < MaxConfigure
    /\ FirstBad(Configs[c]) = 0
    /\ critical_points' = CriticalAfterParse(Configs[c])
    /\ points' = PointsOf(Configs[c])
    /\ pre' = Registry
    /\ cnt' = [cnt EXCEPT !.cfg = @ + 1]
    /\ written' = [n \in Names |-> None]
    /\ latched' = [n \in Names |-> FALSE]
    /\ IF InitBackends(PointsOf(Configs[c])) # {}
       THEN /\ ctl' = [pc |-> "cfg_init", cfg |-> c, last |-> ctl.last]
            /\ cfgRet' = "running"
            /\ UNCHANGED <<current_states, _state_lock, cfgEverOk>>
       ELSE CfgInitStates(c, PointsOf(Configs[c]))
    /\ UNCHANGED <<backends, change_callbacks, _running, _polling_task, _pending_writes, metrics>>
    /\ UNCHANGED <<simVars, caller, pt, wtasks, jobs>>
    /\ UNCHANGED <<events, received, lastBatch, drainCalls, lastAcc, lastOp>>
    /\ UNCHANGED extVars

\* SimulatedBackend.initialize(backend_points): register the points, set each
\* to False (the manager never passes initial_state)
SimPointsAfterInit(pts) == Update(sim_points, [n \in {m \in DOMAIN pts : pts[m].ref = "sim"} |-> pts[n].io_type])
SimStateAfterInit(pts) == Update(sim_state, [n \in {m \in DOMAIN pts : pts[m].ref = "sim"} |-> FalseV])

\* gather(*init_tasks) is over.  The simulator's initialize cannot fail; the
\* expander's returns False or, as any HardwareBackend may, raises, and then
\* configure_from_dict returns False.
CfgInitDone(mcpRaises) ==
    /\ ctl.pc = "cfg_init"
    /\ mcpRaises => "mcp" \in InitBackends(points)
    /\ IF "simulator" \in InitBackends(points)
       THEN /\ sim_points' = SimPointsAfterInit(points)
            /\ sim_state' = SimStateAfterInit(points)
            /\ sim_initialized' = TRUE
            /\ closed' = closed \ {"simulator"}
       ELSE UNCHANGED <<sim_points, sim_state, sim_initialized, closed>>
    /\ IF mcpRaises
       THEN /\ ctl' = CtlIdle("other")
            /\ cfgRet' = "false"
            /\ UNCHANGED <<current_states, _state_lock, cfgEverOk>>
       ELSE CfgInitStates(ctl.cfg, points)
    /\ UNCHANGED <<backends, points, critical_points, change_callbacks, _running, _polling_task, _pending_writes, metrics>>
    /\ UNCHANGED <<caller, pt, wtasks, jobs>>
    /\ UNCHANGED <<events, received, lastBatch, drainCalls, lastAcc, written, latched, lastOp, pre, cnt>>
    /\ UNCHANGED extVars

\* _initialize_states is handed the state lock it queued for
CfgLockWake ==
    /\ ctl.pc = "cfg_lock"
    /\ LockTurn("ctl")
    /\ IF backends = {}
       THEN CfgReturnTrue(EmptyDict, LockDequeue, points)
       ELSE /\ _state_lock' = [LockDequeue EXCEPT !.locked = TRUE]
            /\ ctl' = [ctl EXCEPT !.pc = "cfg_read"]
            /\ UNCHANGED <<current_states, cfgRet, cfgEverOk>>
    /\ UNCHANGED <<backends, points, critical_points, change_callbacks, _running, _polling_task, _pending_writes, metrics>>
    /\ UNCHANGED <<simVars, caller, pt, wtasks, jobs>>
    /\ UNCHANGED <<events, received, lastBatch, drainCalls, lastAcc, written, latched, lastOp, pre, cnt>>
    /\ UNCHANGED extVars

\* the initial read_all of every backend is over
CfgReadDone(simFail) ==
    /\ ctl.pc = "cfg_read"
    /\ simFail => "simulator" \in backends
    /\ CfgReturnTrue(ReadAll(backends, simFail), [_state_lock EXCEPT !.locked = FALSE], points)
    /\ UNCHANGED <<backends, points, critical_points, change_callbacks, _running, _polling_task, _pending_writes, metrics>>
    /\ UNCHANGED <<simVars, caller, pt, wtasks, jobs>>
    /\ UNCHANGED <<events, received, lastBatch, drainCalls, lastAcc, written, latched, lastOp, pre, cnt>>
    /\ UNCHANGED extVars

\* IoManager.start
Start ==
    /\ ctl.pc = "idle"
    /\ cnt.start < MaxStart
    /\ cnt' = [cnt EXCEPT !.start = @ + 1]
    /\ ctl' = CtlIdle("other")
    /\ IF _running
       THEN UNCHANGED <<_running, _polling_task, pt>>
       ELSE /\ _running' = TRUE
            /\ _polling_task' = "task"
            /\ pt' = [IdlePt EXCEPT !.pc = "new"]
    /\ UNCHANGED <<backends, points, current_states, critical_points, change_callbacks, _pending_writes, _state_lock, metrics>>
    /\ UNCHANGED <<simVars, caller, wtasks, jobs>>
    /\ UNCHANGED <<events, received, lastBatch, drainCalls, lastAcc, written, latched, lastOp, pre, cfgRet, cfgEverOk>>
    /\ UNCHANGED extVars

\* a stop that does not wait for the task
StopNotJoined == TRUE

\* "await self._polling_task" returns once the task has finished
StopJoined == pt.pc \in {"none", "done"}

\* the tail of stop: gather the backends' close calls (nothing is awaited when
\* there is no backend)
StopCloseStart ==
    IF backends = {}
    THEN ctl' = CtlIdle("stop")
    ELSE ctl' = [pc |-> "stop_close", cfg |-> 0, last |-> ctl.last]

\* IoManager.stop up to its first await
StopBegin ==
    /\ ctl.pc = "idle"
    /\ cnt.stop < MaxStop
    /\ cnt' = [cnt EXCEPT !.stop = @ + 1]
    /\ _running' = FALSE
    /\ latched' = [n \in Names |-> FALSE]
    /\ IF _polling_task # None
       THEN /\ pt' = [pt EXCEPT !.cancel = TRUE]
            /\ ctl' = [pc |-> "stop_join", cfg |-> 0, last |-> ctl.last]
       ELSE /\ StopCloseStart
            /\ UNCHANGED pt
    /\ UNCHANGED <<backends, points, current_states, critical_points, change_callbacks, _polling_task, _pending_writes, _state_lock, metrics>>
    /\ UNCHANGED <<simVars, caller, wtasks, jobs>>
    /\ UNCHANGED <<events, received, lastBatch, drainCalls, lastAcc, written, lastOp, pre, cfgRet, cfgEverOk>>
    /\ UNCHANGED extVars

\* the awaited task is over: drop the reference, go on to close the backends
StopJoin ==
    /\ ctl.pc = "stop_join"
    /\ StopJoined
    /\ _polling_task' = None
    /\ StopCloseStart
    /\ UNCHANGED <<backends, points, current_states, critical_points, change_callbacks, _running, _pending_writes, _state_lock, metrics>>
    /\ UNCHANGED <<simVars, caller, pt, wtasks, jobs, obsVars>>
    /\ UNCHANGED extVars

\* the close calls are over (SimulatedBackend.close clears its state and
\* points); stop returns
StopClose ==
    /\ ctl.pc = "stop_close"
    /\ ctl' = CtlIdle("stop")
    /\ closed' = backends
    /\ IF "simulator" \in backends
       THEN /\ sim_state' = EmptyDict
            /\ sim_points' = EmptyDict
            /\ sim_initialized' = FALSE
       ELSE UNCHANGED <<sim_state, sim_points, sim_initialized>>
    /\ UNCHANGED <<mgrVars, caller, pt, wtasks, jobs, obsVars>>
    /\ UNCHANGED extVars

\* SimulatedBackend.simulate_input_change: the hardware side of a point changes
SimulateInputChange(p, v) ==
    /\ cnt.hw < MaxHw
    /\ p \in DOMAIN sim_state
    /\ sim_state[p] # v
    /\ sim_state' = [sim_state EXCEPT ![p] = v]
    /\ cnt' = [cnt EXCEPT !.hw = @ + 1]
    /\ written' = [written EXCEPT ![p] = None]
    /\ latched' = [latched EXCEPT ![p] = FALSE]
    /\ UNCHANGED <<mgrVars, sim_points, sim_initialized, closed, taskVars>>
    /\ UNCHANGED <<events, received, lastBatch, drainCalls, lastAcc, lastOp, pre, cfgRet, cfgEverOk>>
    /\ UNCHANGED extVars

\* ------------------------------------------------------------------ RuntimeConfigManager
\* the last snapshots kept in config_history
HistoryLimit == 50

\* current_config.get('io_points', [])
IoPointsOf(config) == IF "io_points" \in DOMAIN config THEN config["io_points"] ELSE <<>>

PointNames(io_points) == {io_points[i].name : i \in 1..Len(io_points)}

\* index of the first point called name, 0 when there is none
FirstNamed(io_points, name) ==
    IF \E i \in 1..Len(io_points) : io_points[i].name = name
    THEN CHOOSE i \in 1..Len(io_points) :
            /\ io_points[i].name = name
            /\ \A j \in 1..(i - 1) : io_points[j].name # name
    ELSE 0

\* io_points.pop(i)
PopFirst(io_points, i) == Tail(io_points)
Pop(io_points, i) == SubSeq(io_points, 1, i - 1) \o SubSeq(io_points, i + 1, Len(io_points))

\* _validate_point_config, the io_type check left out
_validate_required_only(config) ==
    /\ config.name # Missing
    /\ config.io_type # Missing
    /\ config.hardware_ref # Missing
\* _validate_point_config
_validate_point_config(config) ==
    /\ config.name # Missing
    /\ config.io_type # Missing
    /\ config.hardware_ref # Missing
    /\ config.io_type \in IoTypes

\* the history after config_history.pop(0), nothing dropped
TrimNever(history) == history
\* the history after config_history.pop(0) when it holds more than HistoryLimit
Trim(history) == IF Len(history) > HistoryLimit THEN Tail(history) ELSE history

\* _create_snapshot: the history after snapshotting config under version
_create_snapshot(history, config, version, changes) ==
    Trim(Append(history, [config |-> config, version |-> version, changes_since_last |-> changes]))

ConfigChange(change_type, point_name) == [change_type |-> change_type, point_name |-> point_name]

\* index of the newest snapshot labelled version, 0 when there is none
NewestWithVersion(history, version) ==
    IF \E i \in 1..Len(history) : history[i].version = version
    THEN CHOOSE i \in 1..Len(history) :
            /\ history[i].version = version
            /\ \A j \in (i + 1)..Len(history) : history[j].version # version
    ELSE 0

\* the record of a call for its caller
CallSeen(op, name, pc, v, ret, notified) ==
    [op |-> op, name |-> name, pc |-> pc, v |-> v, ret |-> ret, notified |-> notified,
     ver |-> cm_version, pts |-> IoPointsOf(cm_config),
     before |-> [f \in DOMAIN NoCallBefore |-> cm_last[f]]]

\* a call that returns False before it changes anything
CMRefused(op, name, pc, v) ==
    /\ cm_last' = CallSeen(op, name, pc, v, FALSE, 0)
    /\ cm_calls' = cm_calls + 1
    /\ UNCHANGED <<cm_config, cm_history, cm_version, cm_callbacks>>

\* a mutation that went through: _notify_changes (snapshot of the new config
\* under the version given, every callback called), True returned
CMApplied(op, name, pc, v, config, snapVersion, version) ==
    /\ cm_config' = config
    /\ cm_history' = _create_snapshot(cm_history, config, snapVersion, <<ConfigChange(op, name)>>)
    /\ cm_version' = version
    /\ cm_last' = CallSeen(op, name, pc, v, TRUE, cm_callbacks)
    /\ cm_calls' = cm_calls + 1
    /\ UNCHANGED cm_callbacks

on_config_change ==
    /\ cm_callbacks' = cm_callbacks + 1
    /\ UNCHANGED <<cm_config, cm_history, cm_version, cm_last, cm_calls>>
    /\ UNCHANGED cmRest

load_config(new_config) ==
    /\ cm_history' = IF cm_config # EmptyDict
                     THEN _create_snapshot(cm_history, cm_config, cm_version, <<>>)
                     ELSE cm_history
    /\ cm_config' = new_config
    /\ cm_version' = cm_version + 1
    /\ cm_last' = CallSeen("load", None, NoPointConfig, 0 - 1, TRUE, 0)
    /\ cm_calls' = cm_calls + 1
    /\ UNCHANGED cm_callbacks
    /\ UNCHANGED cmRest

add_io_point(point_config) ==
    /\ IF \/ point_config.name = Missing
          \/ ~_validate_point_config(point_config)
          \/ point_config.name \in PointNames(IoPointsOf(cm_config))
       THEN CMRefused("add", point_config.name, point_config, 0 - 1)
       ELSE CMApplied("add", point_config.name, point_config, 0 - 1,
                      Put(cm_config, "io_points", Append(IoPointsOf(cm_config), point_config)),
                      cm_version, cm_version + 1)
    /\ UNCHANGED cmRest

remove_io_point(point_name) ==
    /\ LET io_points == IoPointsOf(cm_config)
           i == FirstNamed(io_points, point_name)
       IN  IF i = 0
           THEN CMRefused("remove", point_name, NoPointConfig, 0 - 1)
           ELSE CMApplied("remove", point_name, NoPointConfig, 0 - 1,
                          Put(cm_config, "io_points", Pop(io_points, i)),
                          cm_version, cm_version + 1)
    /\ UNCHANGED cmRest

modify_io_point(point_name, new_config) ==
    /\ LET io_points == IoPointsOf(cm_config)
           i == FirstNamed(io_points, point_name)
       IN  IF ~_validate_point_config(new_config) \/ i = 0
           THEN CMRefused("modify", point_name, new_config, 0 - 1)
           ELSE CMApplied("modify", point_name, new_config, 0 - 1,
                          Put(cm_config, "io_points", [io_points EXCEPT ![i] = new_config]),
                          cm_version, cm_version + 1)
    /\ UNCHANGED cmRest

rollback_to_version(version) ==
    /\ LET i == NewestWithVersion(cm_history, version)
       IN  IF i = 0
           THEN CMRefused("rollback", "system", NoPointConfig, version)
           ELSE CMApplied("rollback", "system", NoPointConfig, version,
                          cm_history[i].config, cm_version + 1, cm_version + 1)
    /\ UNCHANGED cmRest

\* ------------------------------------------------------------------ expander chips
\* MCP23017 register addresses
IODIRA == 0
IODIRB == 1
IPOLA == 2
IPOLB == 3
GPINTENA == 4
GPINTENB == 5
INTCONA == 8
INTCONB == 9
IOCONA == 10
IOCONB == 11
GPPUA == 12
GPPUB == 13
GPIOA == 18
GPIOB == 19
\* MCP23008 register addresses
IODIR == 0
IPOL == 1
GPINTEN == 2
INTCON == 4
IOCON == 5
GPPU == 6
GPIO == 9

\* device.write_byte(register, value) as seen on the bus
BusWrite(register, value) == [register |-> register, value |-> value]

\* the pins a caller may name: the 16 valid ones and one past them
ChipPins == 0..16
\* the bytes the hardware may present on a port, and the bytes written to one
HwBytes == {0, 85}
PortBytes == {170}

\* 0 <= pin <= 15 (MCP23017), 0 <= pin <= 7 (MCP23008)
ValidPin(kind, pin) == 0 <= pin /\ pin <= (IF kind = "mcp23017" THEN 15 ELSE 7)
\* 'A' if pin < 8 else 'B'; the MCP23008 has the one port
PortOf(kind, pin) == IF kind = "mcp23017" THEN (IF pin < 8 THEN "A" ELSE "B") ELSE "P"
InitialPorts(kind) == IF kind = "mcp23017" THEN [x \in {"A", "B"} |-> 0] ELSE [x \in {"P"} |-> 0]
GpioRegister(kind, port) ==
    IF kind = "mcp23017" THEN (IF port = "A" THEN GPIOA ELSE GPIOB) ELSE GPIO

\* 1 << (pin % 8)
PinMask(pin) == 2 ^ (pin % 8)
\* bool(state & pin_mask)
MaskSet(state, pin_mask) == (state \div pin_mask) % 2 = 1
\* current | pin_mask  and  current & ~pin_mask
OrMask(current, pin_mask) == IF MaskSet(current, pin_mask) THEN current ELSE current + pin_mask
AndNotMask(current, pin_mask) == IF MaskSet(current, pin_mask) THEN current - pin_mask ELSE current

\* the cached value of a pin: read_pin
CachedPin(kind, ports, pin) == MaskSet(ports[PortOf(kind, pin)], PinMask(pin))

\* the register writes of initialize, the IOCON writes moved first
InitWritesIoconFirst(kind, config) ==
    IF kind = "mcp23017"
    THEN (IF config.sequential_operation
          THEN <<BusWrite(IOCONA, 32), BusWrite(IOCONB, 32)>> ELSE <<>>)
         \o <<BusWrite(IODIRA, 255), BusWrite(IODIRB, 255)>>
         \o (IF config.pull_ups
             THEN <<BusWrite(GPPUA, 255), BusWrite(GPPUB, 255)>> ELSE <<>>)
         \o (IF config.polarity_inversion
             THEN <<BusWrite(IPOLA, 255), BusWrite(IPOLB, 255)>> ELSE <<>>)
         \o (IF config.interrupt_pin # None
             THEN <<BusWrite(GPINTENA, 255), BusWrite(GPINTENB, 255),
                    BusWrite(INTCONA, 0), BusWrite(INTCONB, 0)>> ELSE <<>>)
    ELSE (IF config.sequential_operation THEN <<BusWrite(IOCON, 32)>> ELSE <<>>)
         \o <<BusWrite(IODIR, 255)>>
         \o (IF config.pull_ups THEN <<BusWrite(GPPU, 255)>> ELSE <<>>)
         \o (IF config.polarity_inversion THEN <<BusWrite(IPOL, 255)>> ELSE <<>>)
         \o (IF config.interrupt_pin # None
             THEN <<BusWrite(GPINTEN, 255), BusWrite(INTCON, 0)>> ELSE <<>>)
\* the register writes of initialize, in the order the code issues them
InitWrites(kind, config) ==
    IF kind = "mcp23017"
    THEN <<BusWrite(IODIRA, 255), BusWrite(IODIRB, 255)>>
         \o (IF config.pull_ups
             THEN <<BusWrite(GPPUA, 255), BusWrite(GPPUB, 255)>> ELSE <<>>)
         \o (IF config.polarity_inversion
             THEN <<BusWrite(IPOLA, 255), BusWrite(IPOLB, 255)>> ELSE <<>>)
         \o (IF config.sequential_operation
             THEN <<BusWrite(IOCONA, 32), BusWrite(IOCONB, 32)>> ELSE <<>>)
         \o (IF config.interrupt_pin # None
             THEN <<BusWrite(GPINTENA, 255), BusWrite(GPINTENB, 255),
                    BusWrite(INTCONA, 0), BusWrite(INTCONB, 0)>> ELSE <<>>)
    ELSE <<BusWrite(IODIR, 255)>>
         \o (IF config.pull_ups THEN <<BusWrite(GPPU, 255)>> ELSE <<>>)
         \o (IF config.polarity_inversion THEN <<BusWrite(IPOL, 255)>> ELSE <<>>)
         \o (IF config.sequential_operation THEN <<BusWrite(IOCON, 32)>> ELSE <<>>)
         \o (IF config.interrupt_pin # None
             THEN <<BusWrite(GPINTEN, 255), BusWrite(INTCON, 0)>> ELSE <<>>)

\* the caller is between two calls of a constructed chip
ChipIdle == chip.kind # "none" /\ chip_call.pc = "idle"

\* the caller enters a call: what it starts from is kept for comparison
ChipCall(op) ==
    [NoChipCall EXCEPT !.op = op, !.ports = chip.ports,
                       !.was_initialized = chip._initialized]

\* a call that returns, or raises, without suspending
ChipReturns(call, ret) ==
    /\ chip_call' = [call EXCEPT !.pc = "idle", !.ret = ret]
    /\ bus' = <<>>
    /\ chip_cnt' = [chip_cnt EXCEPT !.ops = @ + 1]

NewChip(kind, config) ==
    /\ chip.kind = "none"
    /\ chip' = [kind |-> kind, config |-> config, ports |-> InitialPorts(kind),
                _lock |-> FALSE, _initialized |-> FALSE]
    /\ UNCHANGED <<chip_call, bus, chip_cnt>>
    /\ UNCHANGED chipRest

MCP23017Chip(config) == NewChip("mcp23017", config)

MCP23008Chip(config) == NewChip("mcp23008", config)

\* initialize up to its first write_byte
initialize ==
    /\ ChipIdle
    /\ IF chip._initialized
       THEN /\ ChipReturns(ChipCall("initialize"), "ok")
            /\ UNCHANGED chip
       ELSE /\ chip' = [chip EXCEPT !._lock = TRUE]
            /\ chip_call' = [ChipCall("initialize") EXCEPT
                                !.pc = IF chip._lock THEN "wait_lock" ELSE "initialize",
                                !.todo = InitWrites(chip.kind, chip.config)]
            /\ bus' = <<>>
            /\ chip_cnt' = [chip_cnt EXCEPT !.ops = @ + 1]
    /\ UNCHANGED chipRest

\* one write_byte of initialize went through
InitializeWrite ==
    /\ chip_call.pc = "initialize"
    /\ chip_call.todo # <<>>
    /\ bus' = Append(bus, Head(chip_call.todo))
    /\ chip_call' = [chip_call EXCEPT !.todo = Tail(@)]
    /\ UNCHANGED <<chip, chip_cnt>>
    /\ UNCHANGED chipRest

\* one write_byte of initialize raised: the lock is released, the error re-raised
InitializeBusError ==
    /\ chip_call.pc = "initialize"
    /\ chip_call.todo # <<>>
    /\ chip' = [chip EXCEPT !._lock = FALSE]
    /\ chip_call' = [chip_call EXCEPT !.pc = "idle", !.ret = "OSError", !.todo = <<>>]
    /\ chip_cnt' = [chip_cnt EXCEPT !.errors = @ + 1]
    /\ UNCHANGED bus
    /\ UNCHANGED chipRest

\* every write_byte of initialize went through
InitializeDone ==
    /\ chip_call.pc = "initialize"
    /\ chip_call.todo = <<>>
    /\ chip' = [chip EXCEPT !._initialized = TRUE, !._lock = FALSE]
    /\ chip_call' = [chip_call EXCEPT !.pc = "idle", !.ret = "ok"]
    /\ UNCHANGED <<bus, chip_cnt>>
    /\ UNCHANGED chipRest

\* read_ports (MCP23017) and read_port (MCP23008): the cache takes what the
\* hardware presents
read_ports(values) ==
    /\ ChipIdle
    /\ ~chip._lock
    /\ chip' = [chip EXCEPT !.ports = values]
    /\ ChipReturns(ChipCall("read_ports"), "ok")
    /\ UNCHANGED chipRest

\* write_port called by the chip's user (the MCP23008 has the one port)
write_port(port, value) ==
    /\ ChipIdle
    /\ ~chip._lock
    /\ chip' = [chip EXCEPT !.ports[port] = value]
    /\ chip_call' = [ChipCall("write_port") EXCEPT !.ret = "ok", !.port = port, !.new_state = value]
    /\ bus' = <<BusWrite(GpioRegister(chip.kind, port), value)>>
    /\ chip_cnt' = [chip_cnt EXCEPT !.ops = @ + 1]
    /\ UNCHANGED chipRest

read_pin(pin) ==
    /\ ChipIdle
    /\ IF ~ValidPin(chip.kind, pin)
       THEN ChipReturns([ChipCall("read_pin") EXCEPT !.pin = pin], "ValueError")
       ELSE ChipReturns([ChipCall("read_pin") EXCEPT
                            !.pin = pin,
                            !.value = CachedPin(chip.kind, chip.ports, pin)], "ok")
    /\ UNCHANGED chip
    /\ UNCHANGED chipRest

\* write_pin up to its call of write_port: the pin is checked, the chip's lock
\* taken, the new port byte computed from the cache
write_pin(pin, value) ==
    /\ ChipIdle
    /\ IF ~ValidPin(chip.kind, pin)
       THEN /\ ChipReturns([ChipCall("write_pin") EXCEPT !.pin = pin, !.value = value], "ValueError")
            /\ UNCHANGED chip
       ELSE LET port == PortOf(chip.kind, pin)
                current == chip.ports[port]
                new_state == IF value THEN OrMask(current, PinMask(pin))
                                      ELSE AndNotMask(current, PinMask(pin))
            IN  /\ chip' = [chip EXCEPT !._lock = TRUE]
                /\ chip_call' = [ChipCall("write_pin") EXCEPT
                                    !.pc = IF chip._lock THEN "wait_lock" ELSE "write_pin",
                                    !.pin = pin, !.value = value,
                                    !.port = port, !.new_state = new_state]
                /\ bus' = <<>>
                /\ chip_cnt' = [chip_cnt EXCEPT !.ops = @ + 1]
    /\ UNCHANGED chipRest

\* write_pin calls write_port, whose 'async with self._lock' takes the chip's
\* lock when it is free and otherwise waits for its holder to release it; with
\* the lock taken write_port writes the byte and sets the cache, and write_pin
\* returns
WritePinWritePort ==
    /\ chip_call.pc = "write_pin"
    /\ IF ~chip._lock
       THEN /\ chip' = [chip EXCEPT !.ports[chip_call.port] = chip_call.new_state]
            /\ bus' = Append(bus, BusWrite(GpioRegister(chip.kind, chip_call.port),
                                           chip_call.new_state))
            /\ chip_call' = [chip_call EXCEPT !.pc = "idle", !.ret = "ok"]
       ELSE /\ chip_call' = [chip_call EXCEPT !.pc = "wait_lock"]
            /\ UNCHANGED <<chip, bus>>
    /\ UNCHANGED chip_cnt
    /\ UNCHANGED chipRest

\* the bytes the IODIR and GPPU registers may hold when configure_pin reads them
RegisterBytes == {0, 85, 255}
Directions == {"input", "output"}
IodirRegister(kind, port) ==
    IF kind = "mcp23017" THEN (IF port = "A" THEN IODIRA ELSE IODIRB) ELSE IODIR
GppuRegister(kind, port) ==
    IF kind = "mcp23017" THEN (IF port = "A" THEN GPPUA ELSE GPPUB) ELSE GPPU

\* a configure_pin that sets the whole register for the pin's direction
WholeRegister(set, current, pin_mask) == IF set THEN 255 ELSE 0

\* current | pin_mask when the bit is to be set, current & ~pin_mask otherwise
ReadModifyWrite(set, current, pin_mask) ==
    IF set THEN OrMask(current, pin_mask) ELSE AndNotMask(current, pin_mask)

\* configure_pin, its bus calls returning: the pin is checked, then with the
\* chip's lock taken the direction register is read, changed and written, and
\* for an input the pull-up register as well
configure_pin(pin, direction, pull_up, current_dir, current_pull) ==
    /\ ChipIdle
    /\ ~chip._lock
    /\ chip_cnt' = [chip_cnt EXCEPT !.ops = @ + 1]
    /\ IF ~ValidPin(chip.kind, pin)
       THEN /\ chip_call' = [ChipCall("configure_pin") EXCEPT !.pin = pin, !.ret = "ValueError"]
            /\ bus' = <<>>
            /\ pin_call' = [NoPinCall EXCEPT !.op = "configure_pin", !.pin = pin,
                                !.direction = direction, !.pull_up = pull_up,
                                !.ret = "ValueError"]
       ELSE LET port == PortOf(chip.kind, pin)
                iodir_reg == IodirRegister(chip.kind, port)
                gppu_reg == GppuRegister(chip.kind, port)
                new_dir == ReadModifyWrite(direction = "input", current_dir, PinMask(pin))
                new_pull == ReadModifyWrite(pull_up, current_pull, PinMask(pin))
            IN  /\ chip_call' = [ChipCall("configure_pin") EXCEPT !.pin = pin, !.port = port, !.ret = "ok"]
                /\ bus' = IF direction = "input"
                          THEN <<BusWrite(iodir_reg, new_dir), BusWrite(gppu_reg, new_pull)>>
                          ELSE <<BusWrite(iodir_reg, new_dir)>>
                /\ pin_call' = [op |-> "configure_pin", pin |-> pin, direction |-> direction,
                                pull_up |-> pull_up,
                                reads |-> IF direction = "input" THEN <<iodir_reg, gppu_reg>>
                                                                ELSE <<iodir_reg>>,
                                current_dir |-> current_dir,
                                current_pull |-> IF direction = "input" THEN current_pull ELSE 0,
                                ret |-> "ok"]
    /\ UNCHANGED chip
    /\ UNCHANGED configurePinRest

\* ------------------------------------------------------------------ I2C transport
\* _batch_size
BatchSize == 16

\* the registers the caller queues writes for
DevRegisters == {9, 10}
OtherRegister == 10

\* the registers of the queued pairs, each once, in the order of first appearance
RECURSIVE RegistersInOrder(_)
RegistersInOrder(pending) ==
    IF pending = <<>> THEN <<>>
    ELSE LET r == pending[1].register
             rest == RegistersInOrder(SelectSeq(Tail(pending), LAMBDA w : w.register # r))
         IN  <<r>> \o rest

\* the values queued for register, in the order queued
ValuesFor(pending, register) ==
    LET ws == SelectSeq(pending, LAMBDA w : w.register = register)
    IN  [i \in 1..Len(ws) |-> ws[i].value]

\* register_writes of _process_batch: register -> the values queued for it
GroupByRegister(pending) ==
    LET rs == RegistersInOrder(pending)
    IN  [i \in 1..Len(rs) |-> [register |-> rs[i], values |-> ValuesFor(pending, rs[i])]]

\* the caller is between two calls of an open device
DevIdle == dev_call.pc = "idle" /\ ~dev.closed

\* what is left of a call once _process_batch has returned: batch_write_byte
\* leaves its 'async with' and returns, flush_batch returns, close shuts the
\* executor down and closes the bus
DevFinish(d, op) ==
    CASE op = "batch_write_byte" -> [d EXCEPT !._batch_lock = FALSE]
      [] op = "flush_batch" -> d
      [] op = "close" -> [d EXCEPT !.shutdown = TRUE, !.closed = TRUE]

\* batch_write_byte up to its call of _process_batch
batch_write_byte(register, value) ==
    /\ DevIdle
    /\ IF dev._batch_lock
       THEN /\ dev_call' = [NoDevCall EXCEPT !.op = "batch_write_byte", !.pc = "wait_batch_lock",
                                             !.queued = dev._pending_writes]
            /\ UNCHANGED dev
       ELSE LET pending == Append(dev._pending_writes, [register |-> register, value |-> value])
            IN  IF Len(pending) >= BatchSize
                THEN /\ dev' = [dev EXCEPT !._pending_writes = pending, !._batch_lock = TRUE]
                     /\ dev_call' = [NoDevCall EXCEPT !.op = "batch_write_byte",
                                                      !.pc = "process_batch", !.queued = pending]
                ELSE /\ dev' = [dev EXCEPT !._pending_writes = pending]
                     /\ dev_call' = [NoDevCall EXCEPT !.op = "batch_write_byte", !.ret = "ok",
                                                      !.queued = pending]
    /\ dev_bus' = <<>>
    /\ dev_cnt' = [dev_cnt EXCEPT !.ops = @ + 1,
                                  !.other = IF register = OtherRegister THEN @ + 1 ELSE @]
    /\ UNCHANGED devRest

\* flush_batch and close up to their call of _process_batch
DevDrainCall(op) ==
    /\ DevIdle
    /\ dev_call' = [NoDevCall EXCEPT !.op = op, !.pc = "process_batch", !.queued = dev._pending_writes]
    /\ dev_bus' = <<>>
    /\ dev_cnt' = [dev_cnt EXCEPT !.ops = @ + 1]
    /\ UNCHANGED dev
    /\ UNCHANGED devRest

flush_batch == DevDrainCall("flush_batch")

close == DevDrainCall("close")

\* _process_batch up to its first write_bytes: it returns when nothing is
\* pending; otherwise it takes _batch_lock (waiting while it is held), groups
\* the pairs by register, clears the queue, releases _batch_lock and takes _lock
_process_batch ==
    /\ dev_call.pc = "process_batch"
    /\ IF dev._pending_writes = <<>>
       THEN /\ dev' = DevFinish(dev, dev_call.op)
            /\ dev_call' = [dev_call EXCEPT !.pc = "idle", !.ret = "ok"]
       ELSE IF dev._batch_lock
       THEN /\ dev_call' = [dev_call EXCEPT !.pc = "wait_batch_lock"]
            /\ UNCHANGED dev
       ELSE /\ dev' = [dev EXCEPT !._pending_writes = <<>>, !._lock = TRUE]
            /\ dev_call' = [dev_call EXCEPT
                                !.pc = IF dev._lock THEN "wait_lock" ELSE "write_bytes",
                                !.todo = GroupByRegister(dev._pending_writes)]
    /\ UNCHANGED <<dev_bus, dev_cnt>>
    /\ UNCHANGED devRest

\* write_bytes(register, values) called by _process_batch: its 'async with
\* self._lock' takes the lock when it is free and otherwise waits for its
\* holder; with the lock taken, the block write goes to the bus, and after the
\* last register _process_batch releases _lock and the call finishes
write_bytes ==
    /\ dev_call.pc = "write_bytes"
    /\ IF dev._lock
       THEN /\ dev_call' = [dev_call EXCEPT !.pc = "wait_lock"]
            /\ UNCHANGED <<dev, dev_bus>>
       ELSE /\ dev_bus' = Append(dev_bus, Head(dev_call.todo))
            /\ IF Tail(dev_call.todo) = <<>>
               THEN /\ dev' = DevFinish(dev, dev_call.op)
                    /\ dev_call' = [dev_call EXCEPT !.pc = "idle", !.ret = "ok", !.todo = <<>>]
               ELSE /\ dev_call' = [dev_call EXCEPT !.todo = Tail(@)]
                    /\ UNCHANGED dev
    /\ UNCHANGED dev_cnt
    /\ UNCHANGED devRest

\* ------------------------------------------------------------------ MCPBackend point ids
\* a point id is the sequence of its characters
HexDigits == <<"0", "1", "2", "3", "4", "5", "6", "7", "8", "9", "a", "b", "c", "d", "e", "f">>
DigitValue(ch) == CHOOSE i \in 0..15 : HexDigits[i + 1] = ch
IsDigit(ch, base) == \E i \in 0..(base - 1) : HexDigits[i + 1] = ch

\* str(n) for 0 <= n < 100
DecStr(n) == IF n < 10 THEN <<HexDigits[n + 1]>> ELSE <<HexDigits[(n \div 10) + 1], HexDigits[(n % 10) + 1]>>

\* f"mcp{address:02x}_{pin}"
PointIdOf(address, pin) ==
    <<"m", "c", "p">> \o <<HexDigits[(address \div 16) + 1], HexDigits[(address % 16) + 1]>>
    \o <<"_">> \o DecStr(pin)

\* point_id.split('_')
RECURSIVE SplitUnderscore(_)
SplitUnderscore(s) ==
    IF \A i \in 1..Len(s) : s[i] # "_" THEN <<s>>
    ELSE LET k == CHOOSE i \in 1..Len(s) : s[i] = "_" /\ \A j \in 1..(i - 1) : s[j] # "_"
         IN  <<SubSeq(s, 1, k - 1)>> \o SplitUnderscore(SubSeq(s, k + 1, Len(s)))

\* int(text, base) for digit strings; -1 stands for the ValueError
RECURSIVE ParseInt(_, _)
ParseInt(text, base) ==
    IF text = <<>> \/ \E i \in 1..Len(text) : ~IsDigit(text[i], base) THEN 0 - 1
    ELSE IF Len(text) = 1 THEN DigitValue(text[1])
    ELSE ParseInt(SubSeq(text, 1, Len(text) - 1), base) * base + DigitValue(text[Len(text)])

\* MCPBackend._get_chip_and_pin: the chip's address and the pin, or the ValueError
_get_chip_and_pin(chips, point_id) ==
    LET parts == SplitUnderscore(point_id)
    IN  IF Len(parts) # 3 THEN [ret |-> "ValueError", address |-> 0 - 1, pin |-> 0 - 1]
        ELSE LET address == ParseInt(parts[2], 16)
                 pin == ParseInt(parts[3], 10)
             IN  IF address < 0 \/ pin < 0 \/ address \notin chips
                 THEN [ret |-> "ValueError", address |-> 0 - 1, pin |-> 0 - 1]
                 ELSE [ret |-> "resolved", address |-> address, pin |-> pin]

\* the addresses a backend may be configured with, and ids of another shape or
\* naming no configured chip
ChipAddresses == {32, 33}
OtherPointIds ==
    {<<"m", "c", "p", "_", "2", "0", "_", "3">>,
     <<"m", "c", "p", "2", "2", "_", "3">>,
     <<"m", "c", "p", "_", "2", "2", "_", "3">>,
     <<"s", "i", "m", "_", "0">>,
     <<"m", "c", "p", "2", "0">>}

\* MCPBackend.initialize with the chips' own initialize succeeding
MCPBackend_initialize(addresses) ==
    /\ mb_chips = {}
    /\ mb_chips' = addresses
    /\ UNCHANGED <<mb_ids, mb_last, mb_cnt>>
    /\ UNCHANGED mbRest

\* MCPBackend.read_all_points: the keys of the dictionary it returns
MCPBackend_read_all_points ==
    /\ mb_chips # {}
    /\ mb_ids = {}
    /\ mb_ids' = {PointIdOf(address, pin) : address \in mb_chips, pin \in 0..15}
    /\ UNCHANGED <<mb_chips, mb_last, mb_cnt>>
    /\ UNCHANGED mbRest

\* read_point and write_point up to the chip's read_pin / write_pin, which
\* raise ValueError for a pin outside 0..15
MCPBackend_point_call(op, point_id) ==
    /\ mb_chips # {}
    /\ LET found == _get_chip_and_pin(mb_chips, point_id)
       IN  mb_last' = [op |-> op, id |-> point_id,
                       ret |-> IF found.ret = "resolved" /\ ~ValidPin("mcp23017", found.pin)
                               THEN "ValueError" ELSE found.ret,
                       address |-> found.address, pin |-> found.pin]
    /\ mb_cnt' = mb_cnt + 1
    /\ UNCHANGED <<mb_chips, mb_ids>>
    /\ UNCHANGED mbRest

MCPBackend_read_point(point_id) == MCPBackend_point_call("read_point", point_id)

MCPBackend_write_point(point_id) == MCPBackend_point_call("write_point", point_id)

\* ------------------------------------------------------------------ backends.simulated.SimulatedBackend
\* the points of the tests' sample_points fixture, and a name that is no point
SamplePoints == [digital_in |-> "digital_input", digital_out |-> "digital_output"]
SimPointIds == DOMAIN SamplePoints \cup {"unknown_point"}

Simulated_initialize ==
    /\ ~sbk._initialized
    /\ sbk' = [sbk EXCEPT !._initialized = TRUE]
    /\ UNCHANGED <<sbk_last, sbk_cnt>>
    /\ UNCHANGED sbkRest

set_simulated_states(states) ==
    /\ sbk' = [sbk EXCEPT !._states = states]
    /\ sbk_cnt' = sbk_cnt + 1
    /\ UNCHANGED sbk_last
    /\ UNCHANGED sbkRest

\* write_point with _error_rate at its 0.0
Simulated_write_point(point_id, value) ==
    /\ IF ~sbk._initialized
       THEN /\ sbk_last' = [op |-> "write_point", point_id |-> point_id, ret |-> "RuntimeError",
                            states |-> sbk._states]
            /\ UNCHANGED sbk
       ELSE /\ sbk' = [sbk EXCEPT !._write_count = @ + 1,
                                  !._states = Put(sbk._states, point_id, value)]
            /\ sbk_last' = [op |-> "write_point", point_id |-> point_id, ret |-> "ok",
                            states |-> sbk._states]
    /\ sbk_cnt' = sbk_cnt + 1
    /\ UNCHANGED sbkRest

\* ------------------------------------------------------------------ validation
\* the point dictionaries of the configurations validated; a key that is absent
\* holds Missing
VPoint(name, io_type, hardware_ref, critical, initial_state) ==
    [name |-> name, io_type |-> io_type, hardware_ref |-> hardware_ref,
     critical |-> critical, initial_state |-> initial_state]
ValPoints ==
    {VPoint("a", "digital_input", "sim_0", Missing, Missing),
     VPoint("b", "digital_output", "sim_1", TrueV, Missing),
     VPoint("a", "digital_output", "sim_2", Missing, FalseV),
     VPoint("c", "analog_output", "sim_0", Missing, TrueV),
     VPoint("emergency_stop", "digital_output", "sim_3", Missing, "1.5"),
     VPoint("e", "digital_input", "sim_5", FalseV, FalseV),
     VPoint("d", "invalid_type", "sim_4", Missing, Missing),
     VPoint(Missing, "digital_input", "sim_6", Missing, Missing),
     VPoint("123_invalid", "digital_input", "sim_7", Missing, Missing)}

\* the configurations: no io_points key, or up to MaxPoints of the points
ValConfigs ==
    {EmptyDict} \cup
    UNION {{[x \in {"io_points"} |-> pts] : pts \in [1..n -> ValPoints]} : n \in 0..MaxPoints}

\* names that do not match ^[a-zA-Z][a-zA-Z0-9_]*$
PatternInvalidNames == {"123_invalid"}
\* names that hold "emergency" and "stop" once lowered
EmergencyStopNames == {"emergency_stop"}

\* jsonschema.validate(config, SCHEMA) raises no ValidationError
SchemaValid(config) ==
    /\ "io_points" \in DOMAIN config
    /\ \A i \in 1..Len(config["io_points"]) :
        LET point == config["io_points"][i]
        IN  /\ point.name # Missing /\ point.name \notin PatternInvalidNames
            /\ point.io_type \in IoTypes
            /\ point.hardware_ref # Missing

ValidationIssue(level, category, text, arg, index, field) ==
    [level |-> level, category |-> category, message |-> [text |-> text, arg |-> arg],
     path |-> [index |-> index, field |-> field]]

RECURSIVE Flatten(_)
Flatten(seqs) == IF seqs = <<>> THEN <<>> ELSE Head(seqs) \o Flatten(Tail(seqs))

\* isinstance(initial_state, bool)
IsBool(v) == v \in Values

\* ConfigValidator._validate_point, the point being io_points[i]
_validate_point(point, i) ==
    (IF point.initial_state # Missing /\ point.io_type # Missing
     THEN IF point.io_type \in {"digital_input", "digital_output"}
          THEN IF ~IsBool(point.initial_state)
               THEN <<ValidationIssue("warning", "type_mismatch", "Digital I/O should have boolean initial_state",
                                      None, i, "initial_state")>>
               ELSE <<>>
          ELSE IF point.io_type \in {"analog_input", "analog_output"} /\ IsBool(point.initial_state)
               THEN <<ValidationIssue("warning", "type_mismatch", "Analog I/O should have numeric initial_state",
                                      None, i, "initial_state")>>
               ELSE <<>>
     ELSE <<>>)
    \o (IF point.io_type \in {"digital_input", "analog_input"} /\ point.initial_state # Missing
        THEN <<ValidationIssue("info", "unnecessary_field", "Input points don't need initial_state",
                               None, i, "initial_state")>>
        ELSE <<>>)

\* the value of field was seen at the point just before
SeenJustBefore(io_points, i, field) ==
    /\ i > 1
    /\ io_points[i - 1][field] # Missing
    /\ io_points[i - 1][field] = io_points[i][field]
\* name in names_seen / hardware_ref in hardware_refs_seen when point i is looked at
SeenBefore(io_points, i, field) ==
    \E j \in 1..(i - 1) :
        io_points[j][field] # Missing /\ io_points[j][field] = io_points[i][field]

\* one loop of _check_conflicts
DuplicateIssues(io_points, field, category, text) ==
    Flatten([i \in 1..Len(io_points) |->
        IF io_points[i][field] # Missing /\ SeenBefore(io_points, i, field)
        THEN <<ValidationIssue("error", category, text, io_points[i][field], i - 1, field)>>
        ELSE <<>>])

\* ConfigValidator._check_conflicts
_check_conflicts(io_points) ==
    DuplicateIssues(io_points, "name", "duplicate_name", "Duplicate I/O point name")
    \o DuplicateIssues(io_points, "hardware_ref", "duplicate_hardware", "Duplicate hardware_ref")

IsEmergencyStop(point) == point.name \in EmergencyStopNames
IsOutput(point) == point.io_type \in {"digital_output", "analog_output"}

\* ConfigValidator._check_safety_rules
_check_safety_rules(io_points) ==
    Flatten([i \in 1..Len(io_points) |->
        IF IsEmergencyStop(io_points[i])
        THEN (IF io_points[i].io_type # "digital_input"
              THEN <<ValidationIssue("warning", "safety", "Emergency stop should be digital_input",
                                     None, i - 1, "io_type")>>
              ELSE <<>>)
             \o (IF io_points[i].critical # TrueV
                 THEN <<ValidationIssue("warning", "safety", "Emergency stop should be marked as critical",
                                        None, i - 1, "critical")>>
                 ELSE <<>>)
        ELSE <<>>])
    \o Flatten([i \in 1..Len(io_points) |->
        IF IsOutput(io_points[i]) /\ io_points[i].critical = TrueV /\ io_points[i].initial_state = Missing
        THEN <<ValidationIssue("warning", "safety", "Critical output should have explicit initial_state",
                               None, i - 1, "initial_state")>>
        ELSE <<>>])
    \o (IF /\ \E i \in 1..Len(io_points) : IsOutput(io_points[i])
           /\ \A i \in 1..Len(io_points) : ~IsEmergencyStop(io_points[i])
        THEN <<ValidationIssue("info", "safety", "System has outputs but no emergency stop points",
                               None, 0 - 1, "io_points")>>
        ELSE <<>>)

\* ConfigValidator.validate_config
validate_config(config) ==
    IF ~SchemaValid(config)
    THEN <<ValidationIssue("error", "schema", "Schema validation failed", None, 0 - 1,
                           IF "io_points" \in DOMAIN config THEN "io_points" ELSE "root")>>
    ELSE LET io_points == config["io_points"]
         IN  Flatten([i \in 1..Len(io_points) |-> _validate_point(io_points[i], i - 1)])
             \o _check_conflicts(io_points)
             \o _check_safety_rules(io_points)

\* any(issue.level is not INFO ...)
HasErrorsOrWarnings(issues) == \E k \in 1..Len(issues) : issues[k].level \in {"error", "warning"}
\* any(issue.level == ValidationLevel.ERROR for issue in issues)
HasErrors(issues) == \E k \in 1..Len(issues) : issues[k].level = "error"

\* validate_io_config: (is_valid, issues)
validate_io_config(config) ==
    LET issues == validate_config(config)
    IN  [is_valid |-> ~HasErrors(issues), issues |-> issues]

\* the gate lets every configuration through
BlockedNever(r) == FALSE
\* if not is_valid: return False
Blocked(r) == ~r.is_valid

\* a caller validates a configuration
Validate(config) ==
    /\ vl.op = "none" /\ gate.op = "none"
    /\ LET r == validate_io_config(config)
       IN  vl' = [op |-> "validate_io_config", config |-> config,
                  is_valid |-> r.is_valid, issues |-> r.issues]
    /\ UNCHANGED gate
    /\ UNCHANGED vlRest

\* the configure_from_dict that add_validation_to_manager installs; the
\* manager's own configure_from_dict answers original_ret
validated_configure_from_dict(config, original_ret) ==
    /\ vl.op = "none" /\ gate.op = "none"
    /\ LET r == validate_io_config(config)
       IN  IF Blocked(r)
           THEN gate' = [op |-> "configure_from_dict", config |-> config, ret |-> FalseV,
                         original_calls |-> <<>>, original_ret |-> None]
           ELSE gate' = [op |-> "configure_from_dict", config |-> config, ret |-> original_ret,
                         original_calls |-> Append(gate.original_calls, config),
                         original_ret |-> original_ret]
    /\ UNCHANGED vl
    /\ UNCHANGED vlRest

\* ------------------------------------------------------------------ MCPBackend.write_points
\* "mcp_<address in hex>_<pin>", the shape _get_chip_and_pin takes apart
UnderscoredIdOf(address, pin) ==
    <<"m", "c", "p", "_">> \o <<HexDigits[(address \div 16) + 1], HexDigits[(address % 16) + 1]>>
    \o <<"_">> \o DecStr(pin)

\* the pins write_points is asked to write, and the ids naming them; one id has
\* the shape read_all_points gives its keys
NamedPins == {0, 1, 9}
WritePointIds ==
    {UnderscoredIdOf(address, pin) : address \in ChipAddresses, pin \in NamedPins}
    \cup {PointIdOf(32, 0)}
\* the points dictionaries, as their items in insertion order
WritePointsItems ==
    UNION {{items \in [1..n -> [id : WritePointIds, value : BOOLEAN]] :
                \A i, j \in 1..n : i # j => items[i].id # items[j].id} : n \in 0..MaxNamedPoints}

\* the loop over points.items() for one chip and port: the byte starts from
\* start and takes |= pin_mask or &= ~pin_mask for each item of that port
RECURSIVE GroupedByte(_, _, _, _, _)
GroupedByte(chips, items, address, port, start) ==
    IF items = <<>> THEN start
    ELSE LET found == _get_chip_and_pin(chips, items[Len(items)].id)
             before == GroupedByte(chips, SubSeq(items, 1, Len(items) - 1), address, port, start)
         IN  IF found.address = address /\ PortOf("mcp23017", found.pin) = port
             THEN IF items[Len(items)].value THEN OrMask(before, PinMask(found.pin))
                                             ELSE AndNotMask(before, PinMask(found.pin))
             ELSE before

\* chip_writes[address] = {'A': 0, 'B': 0} filled by the loop, then written:
\* write_port('A', ...) and write_port('B', ...) for every chip an item names
PortWrites(chips, cache, items, address) ==
    <<[address |-> address, port |-> "A", value |-> GroupedByte(chips, items, address, "A", 0)],
      [address |-> address, port |-> "B", value |-> GroupedByte(chips, items, address, "B", 0)]>>

\* the keys of chip_writes in insertion order
AddressesNamed(chips, items) ==
    LET firsts == SelectSeq([i \in 1..Len(items) |-> i],
                            LAMBDA i : \A j \in 1..(i - 1) :
                                _get_chip_and_pin(chips, items[j].id).address
                                    # _get_chip_and_pin(chips, items[i].id).address)
    IN  [k \in 1..Len(firsts) |-> _get_chip_and_pin(chips, items[firsts[k]].id).address]

\* the cache of the chips after the write_port calls
RECURSIVE CacheAfter(_, _)
CacheAfter(cache, writes) ==
    IF writes = <<>> THEN cache
    ELSE CacheAfter([cache EXCEPT ![Head(writes).address][Head(writes).port] = Head(writes).value],
                    Tail(writes))

\* MCPBackend.initialize followed by read_all_points: the backend holds the
\* chips, each chip's cache holds what the hardware presented
MCPBackend_initialized(cache) ==
    /\ wp_chips = EmptyDict
    /\ wp_chips' = cache
    /\ UNCHANGED wp_call
    /\ UNCHANGED wpRest

\* MCPBackend.write_points(points), the chips' write_port calls returning
MCPBackend_write_points(items) ==
    /\ wp_chips # EmptyDict
    /\ wp_call.op = "none"
    /\ LET chips == DOMAIN wp_chips
       IN  IF \E i \in 1..Len(items) : _get_chip_and_pin(chips, items[i].id).ret # "resolved"
           THEN /\ wp_call' = [op |-> "write_points", points |-> items, ret |-> "ValueError",
                               writes |-> <<>>, before |-> wp_chips]
                /\ UNCHANGED wp_chips
           ELSE LET addresses == AddressesNamed(chips, items)
                    writes == Flatten([k \in 1..Len(addresses) |->
                                          PortWrites(chips, wp_chips, items, addresses[k])])
                IN  /\ wp_call' = [op |-> "write_points", points |-> items, ret |-> "ok",
                                    writes |-> writes, before |-> wp_chips]
                    /\ wp_chips' = CacheAfter(wp_chips, writes)
    /\ UNCHANGED wpRest

\* ------------------------------------------------------------------ concurrent lifecycle
\* a task object: created and running its loop, asked to cancel, or finished
TaskAlive(t) == lc_tasks[t] \in {"running", "cancelling"}

\* self._polling_task = None after the await
ClearReference(awaited) == 0

\* start: no await, so one step
start(c) ==
    /\ lc_callers[c].pc = "idle"
    /\ lc_cnt < MaxLifecycleCalls
    /\ lc_cnt' = lc_cnt + 1
    /\ lc_callers' = [lc_callers EXCEPT ![c] = [pc |-> "idle", task |-> 0, last |-> "start"]]
    /\ IF lc_running
       THEN UNCHANGED <<lc_running, lc_polling_task, lc_tasks>>
       ELSE /\ Len(lc_tasks) < MaxTasks
            /\ lc_running' = TRUE
            /\ lc_tasks' = Append(lc_tasks, "running")
            /\ lc_polling_task' = Len(lc_tasks) + 1
    /\ UNCHANGED lcRest

\* stop up to its first await: clear the flag, cancel the referenced task and
\* await it (a finished task is awaited without suspending, which the join
\* step covers); with no task go on to close the backends
stop(c) ==
    /\ lc_callers[c].pc = "idle"
    /\ lc_cnt < MaxLifecycleCalls
    /\ lc_cnt' = lc_cnt + 1
    /\ lc_running' = FALSE
    /\ IF lc_polling_task # 0
       THEN /\ lc_tasks' = [lc_tasks EXCEPT ![lc_polling_task] =
                                IF @ = "running" THEN "cancelling" ELSE @]
            /\ lc_callers' = [lc_callers EXCEPT ![c] = [pc |-> "stop_join", task |-> lc_polling_task, last |-> "stop"]]
       ELSE /\ lc_callers' = [lc_callers EXCEPT ![c] = [pc |-> "stop_close", task |-> 0, last |-> "stop"]]
            /\ UNCHANGED lc_tasks
    /\ UNCHANGED lc_polling_task
    /\ UNCHANGED lcRest

\* the awaited task is over: stop drops the reference and starts closing the
\* backends
stop_joined(c) ==
    /\ lc_callers[c].pc = "stop_join"
    /\ lc_tasks[lc_callers[c].task] = "done"
    /\ lc_polling_task' = ClearReference(lc_callers[c].task)
    /\ lc_callers' = [lc_callers EXCEPT ![c].pc = "stop_close"]
    /\ UNCHANGED <<lc_running, lc_tasks, lc_cnt>>
    /\ UNCHANGED lcRest

\* the backends' close calls are over: stop returns
stop_closed(c) ==
    /\ lc_callers[c].pc = "stop_close"
    /\ lc_callers' = [lc_callers EXCEPT ![c].pc = "idle"]
    /\ UNCHANGED <<lc_running, lc_polling_task, lc_tasks, lc_cnt>>
    /\ UNCHANGED lcRest

\* _polling_loop ends: the CancelledError reaches it at an await, or its
\* "while self._running" test finds the flag cleared
_polling_loop_ends(t) ==
    /\ t \in 1..Len(lc_tasks)
    /\ \/ lc_tasks[t] = "cancelling"
       \/ lc_tasks[t] = "running" /\ ~lc_running
    /\ lc_tasks' = [lc_tasks EXCEPT ![t] = "done"]
    /\ UNCHANGED <<lc_running, lc_polling_task, lc_callers, lc_cnt>>
    /\ UNCHANGED lcRest

\* ------------------------------------------------------------------ specifications
\* the backend keys the metrics cleanup may find stale
MetricKeys == {None, "simulator", "mcp"}

\* the scheduler task, the drain's write tasks and the callback threads
SchedNext ==
    \/ \E cd \in BOOLEAN, nd \in BOOLEAN : SchedIter(cd, nd)
    \/ \E f \in BOOLEAN, g \in BOOLEAN : SchedReadDone(f, g)
    \/ SchedProc
    \/ SchedNotifyNext
    \/ \E c \in wtasks, r \in BOOLEAN : WriteTaskDone(c, r)
    \/ SchedDrainDone
    \/ \E j \in jobs : ThreadRun(j)

\* A running system.  The manager is set up first (backends, callbacks, one
\* configuration, start); from then on the caller's writes and reads, the
\* scheduler's passes and drains, the callback threads and the hardware inputs
\* interleave freely.
RunConfigs == {1, 2}
InSetup == cnt.start = 0 /\ cnt.ops = 0
NextRun ==
    \/ InSetup /\ cnt.cfg = 0 /\ \E b \in BackendNames : AddBackend(b)
    \/ InSetup /\ change_callbacks = <<>> /\ \E k \in {"sync", "async"} : OnChange(k)
    \/ InSetup /\ cnt.cfg = 0 /\ \E c \in RunConfigs : ConfigureBegin(c)
    \/ \E r \in BOOLEAN : CfgInitDone(r)
    \/ \E f \in BOOLEAN : CfgReadDone(f)
    \/ InSetup /\ cfgRet = "true" /\ Start
    \/ ~InSetup /\ \E p \in Names, v \in Values : WriteReject(p, v, {})
    \/ ~InSetup /\ \E p \in Names, v \in Values : WriteAccept(p, v, {})
    \/ WriteNotifyNext({})
    \/ ~InSetup /\ \E p \in Names : ReadCall(p, {})
    \/ SchedNext
    \/ ~InSetup /\ \E p \in Names, v \in Values : SimulateInputChange(p, v)

SpecRun == Init /\ [][NextRun]_vars

\* Configuration.  The lifecycle caller adds backends and configures, with
\* valid and invalid point lists, while the other caller writes and reads; the
\* two meet on the state lock.  The metrics cleanup may evict any stale entry.
NextCfg ==
    \/ \E b \in BackendNames : AddBackend(b)
    \/ \E c \in 1..Len(Configs) : ConfigureBegin(c)
    \/ \E c \in 1..Len(Configs) : ConfigureParseFail(c)
    \/ \E r \in BOOLEAN : CfgInitDone(r)
    \/ \E f \in BOOLEAN : CfgReadDone(f)
    \/ CfgLockWake
    \/ \E p \in Names, v \in Values, st \in SUBSET MetricKeys : WriteReject(p, v, st)
    \/ \E p \in Names, v \in Values, st \in SUBSET MetricKeys : WriteAccept(p, v, st)
    \/ \E p \in Names, v \in Values : WriteAcceptWait(p, v)
    \/ \E st \in SUBSET MetricKeys : WriteWake(st)
    \/ \E p \in Names, st \in SUBSET MetricKeys : ReadCall(p, st)
    \/ \E p \in Names : ReadCallWait(p)
    \/ \E st \in SUBSET MetricKeys : ReadWake(st)
    \/ \E f \in BOOLEAN, st \in SUBSET MetricKeys : ReadFallbackDone(f, st)

SpecCfg == Init /\ [][NextCfg]_vars

\* Lifecycle.  The lifecycle caller adds the simulator, configures, starts and
\* stops in any order while the scheduler runs and the other caller writes
\* once.
LifeConfigs == {1}
NextLife ==
    \/ AddBackend("simulator")
    \/ change_callbacks = <<>> /\ OnChange("sync")
    \/ WriteNotifyNext({})
    \/ SchedNotifyNext
    \/ \E j \in jobs : ThreadRun(j)
    \/ \E c \in LifeConfigs : ConfigureBegin(c)
    \/ CfgInitDone(FALSE)
    \/ \E f \in BOOLEAN : CfgReadDone(f)
    \/ Start
    \/ StopBegin
    \/ StopJoin
    \/ StopClose
    \/ cnt.ops = 0 /\ \E v \in Values : WriteAccept("out1", v, {})
    \/ \E cd \in BOOLEAN, nd \in BOOLEAN : SchedIter(cd, nd)
    \/ \E f \in BOOLEAN : SchedReadDone(f, FALSE)
    \/ SchedProc
    \/ SchedProcWait
    \/ SchedProcWake
    \/ \E c \in wtasks : WriteTaskDone(c, FALSE)
    \/ SchedDrainDone
    \/ SchedCancelled

SpecLife == Init /\ [][NextLife]_vars

\* Notification.  Up to MaxCallbacks callbacks of any kind are registered
\* before the simulator's points are configured and the manager is started;
\* then writes to the output, hardware changes and the scheduler interleave.
NextNotify ==
    \/ InSetup /\ cnt.cfg = 0 /\ AddBackend("simulator")
    \/ InSetup /\ cnt.cfg = 0 /\ \E k \in CallbackKinds : OnChange(k)
    \/ InSetup /\ cnt.cfg = 0 /\ ConfigureBegin(1)
    \/ CfgInitDone(FALSE)
    \/ CfgReadDone(FALSE)
    \/ InSetup /\ cfgRet = "true" /\ Start
    \/ ~InSetup /\ \E v \in Values : WriteAccept("out1", v, {})
    \/ WriteNotifyNext({})
    \/ \E cd \in BOOLEAN, nd \in BOOLEAN : SchedIter(cd, nd)
    \/ SchedReadDone(FALSE, FALSE)
    \/ SchedProc
    \/ SchedNotifyNext
    \/ \E c \in wtasks : WriteTaskDone(c, FALSE)
    \/ SchedDrainDone
    \/ \E j \in jobs : ThreadRun(j)
    \/ ~InSetup /\ \E p \in Names, v \in Values : SimulateInputChange(p, v)

SpecNotify == Init /\ [][NextNotify]_vars

\* Faults.  Both backends, one callback that raises, the configuration with an
\* expander point and a simulator output or the one whose only point has no
\* backend, then start: the caller writes, the
\* reads, the drain's write_point calls and the callback may raise, and the
\* lifecycle caller may stop.  Every await of the scheduler task returns in the
\* end, and both polling intervals elapse again and again.
FaultConfigs == {2, 5}
FaultsReady == cfgRet = "true" /\ backends = BackendNames /\ change_callbacks # <<>>
NextFaults ==
    \/ cnt.cfg = 0 /\ \E b \in BackendNames : AddBackend(b)
    \/ cnt.cfg = 0 /\ change_callbacks = <<>> /\ \E k \in RaisingKinds : OnChange(k)
    \/ cnt.cfg = 0 /\ backends = BackendNames /\ change_callbacks # <<>> /\ \E c \in FaultConfigs : ConfigureBegin(c)
    \/ CfgInitDone(FALSE)
    \/ CfgReadDone(FALSE)
    \/ FaultsReady /\ cnt.start = 0 /\ Start
    \/ cnt.start = 1 /\ \E p \in Names, v \in Values : WriteAccept(p, v, {})
    \/ WriteNotifyNext({})
    \/ \E cd \in BOOLEAN, nd \in BOOLEAN : SchedIter(cd, nd)
    \/ \E f \in BOOLEAN, g \in BOOLEAN : SchedReadDone(f, g)
    \/ SchedProc
    \/ SchedNotifyNext
    \/ \E c \in wtasks, r \in BOOLEAN : WriteTaskDone(c, r)
    \/ SchedDrainDone
    \/ \E j \in jobs : ThreadRun(j)
    \/ cnt.start = 1 /\ cnt.stop = 0 /\ StopBegin
    \/ SchedCancelled
    \/ StopJoin
    \/ StopClose

FaultsProgress ==
    \/ \E f \in BOOLEAN, g \in BOOLEAN : SchedReadDone(f, g)
    \/ SchedProc
    \/ SchedNotifyNext
    \/ \E c \in wtasks, r \in BOOLEAN : WriteTaskDone(c, r)
    \/ SchedDrainDone
    \/ \E j \in jobs : ThreadRun(j)
    \/ WriteNotifyNext({})

SpecFaults == Init /\ [][NextFaults]_vars /\ WF_vars(FaultsProgress) /\ WF_vars(SchedIter(TRUE, TRUE))

\* ---- RuntimeConfigManager driven by one sequential caller: callbacks are
\* registered first, then calls in any order.
CMVersions == 0..(MaxCMOps + 1)

NextCM ==
    \/ cm_calls = 0 /\ cm_callbacks < MaxCallbacks /\ on_config_change
    \/ cm_calls = 0 /\ \E c \in ConfigFiles : load_config(c)
    \/ cm_calls < MaxCMOps /\ \E pc \in PointConfigs : add_io_point(pc)
    \/ cm_calls < MaxCMOps /\ \E n \in CMNames : remove_io_point(n)
    \/ cm_calls < MaxCMOps /\ \E n \in CMNames, pc \in PointConfigs : modify_io_point(n, pc)
    \/ cm_calls < MaxCMOps /\ \E v \in CMVersions : rollback_to_version(v)

SpecCM == Init /\ [][NextCM]_vars

\* ---- RuntimeConfigManager under a long run of calls: one point added and
\* removed again and again, past the history limit.
NextHistory ==
    \/ cm_calls < HistoryLimit + MaxOverflow /\ add_io_point(CA)
    \/ cm_calls < HistoryLimit + MaxOverflow /\ remove_io_point("a")

SpecHistory == Init /\ [][NextHistory]_vars

\* ---- one expander chip driven by one sequential caller; a write of
\* initialize may fail on the bus.
NextChip ==
    \/ \E config \in ChipConfigs : MCP23017Chip(config)
    \/ \E config \in ChipConfigs : MCP23008Chip(config)
    \/ chip_cnt.ops < MaxChipOps /\ initialize
    \/ InitializeWrite
    \/ chip_cnt.errors < MaxBusErrors /\ InitializeBusError
    \/ InitializeDone
    \/ chip_cnt.ops < MaxChipOps /\ \E values \in [DOMAIN chip.ports -> HwBytes] : read_ports(values)
    \/ chip_cnt.ops < MaxChipOps /\ \E port \in DOMAIN chip.ports, value \in PortBytes : write_port(port, value)
    \/ chip_cnt.ops < MaxChipOps /\ \E pin \in ChipPins : read_pin(pin)
    \/ chip_cnt.ops < MaxChipOps /\ \E pin \in ChipPins, value \in BOOLEAN : write_pin(pin, value)
    \/ WritePinWritePort

\* what a call does once started: the event loop runs a task that can run
ChipProgress == InitializeWrite \/ InitializeDone \/ WritePinWritePort

SpecChip == Init /\ [][NextChip]_vars

SpecChipLive == Init /\ [][NextChip]_vars /\ WF_vars(ChipProgress)

\* ---- one expander chip whose user configures pins
NextPin ==
    \/ MCP23017Chip(DefaultChipConfig)
    \/ MCP23008Chip(DefaultChipConfig)
    \/ /\ chip_cnt.ops < MaxChipOps
       /\ \E pin \in ChipPins, direction \in Directions, pull_up \in BOOLEAN,
             current_dir \in RegisterBytes, current_pull \in RegisterBytes :
                configure_pin(pin, direction, pull_up, current_dir, current_pull)

SpecPin == Init /\ [][NextPin]_vars

\* ---- the I2C transport driven by one sequential caller that queues writes
\* (each with a value of its own), flushes and closes.
NextDev ==
    \/ /\ dev_cnt.ops < MaxDevOps
       /\ \E register \in DevRegisters :
            /\ register = OtherRegister => dev_cnt.other < MaxOtherRegister
            /\ batch_write_byte(register, dev_cnt.ops + 1)
    \/ dev_cnt.ops < MaxDevOps /\ flush_batch
    \/ dev_cnt.ops < MaxDevOps /\ close
    \/ _process_batch
    \/ write_bytes

\* what a call does once started: the event loop runs a task that can run
DevProgress == _process_batch \/ write_bytes

SpecDev == Init /\ [][NextDev]_vars /\ WF_vars(DevProgress)

\* ---- an MCPBackend initialized with some chips, its ids read, then points
\* read and written by id.
NextBackend ==
    \/ \E addresses \in (SUBSET ChipAddresses) \ {{}} : MCPBackend_initialize(addresses)
    \/ MCPBackend_read_all_points
    \/ mb_cnt < MaxBackendOps /\ \E id \in mb_ids \cup OtherPointIds : MCPBackend_read_point(id)
    \/ mb_cnt < MaxBackendOps /\ \E id \in mb_ids \cup OtherPointIds : MCPBackend_write_point(id)

SpecBackend == Init /\ [][NextBackend]_vars

\* ---- backends.simulated.SimulatedBackend under the calls of its tests.
NextSimulated ==
    \/ Simulated_initialize
    \/ sbk_cnt < MaxSimOps /\ \E states \in [{"digital_in", "digital_out"} -> Values] : set_simulated_states(states)
    \/ sbk_cnt < MaxSimOps /\ \E id \in SimPointIds, value \in Values : Simulated_write_point(id, value)

SpecSimulated == Init /\ [][NextSimulated]_vars

\* ---- the validator applied to one configuration, either directly or through
\* the gate in front of a manager's configure_from_dict (one call a behaviour).
NextValidate ==
    \/ \E config \in ValConfigs : Validate(config)
    \/ \E config \in ValConfigs, original_ret \in Values : validated_configure_from_dict(config, original_ret)

SpecValidate == Init /\ [][NextValidate]_vars

\* ---- an MCPBackend whose chips hold a cache, then one write_points call
NextWritePoints ==
    \/ \E addresses \in (SUBSET ChipAddresses) \ {{}} :
          \E cache \in [addresses -> [{"A", "B"} -> HwBytes]] : MCPBackend_initialized(cache)
    \/ \E items \in WritePointsItems : MCPBackend_write_points(items)

SpecWritePoints == Init /\ [][NextWritePoints]_vars

\* ---- start and stop called by two coroutines that interleave at stop's awaits
NextLifecycle ==
    \/ \E c \in LifecycleCallers : start(c)
    \/ \E c \in LifecycleCallers : stop(c)
    \/ \E c \in LifecycleCallers : stop_joined(c)
    \/ \E c \in LifecycleCallers : stop_closed(c)
    \/ \E t \in 1..MaxTasks : _polling_loop_ends(t)

SpecLifecycle == Init /\ [][NextLifecycle]_vars

\* ------------------------------------------------------------------ properties
\* C1: once write(p, v) has returned True and neither a later write nor the
\* hardware has touched p, a read(p) that returns gives v.  lastOp.expect is
\* that v at the moment the read returns (None when no such write stands).
C1_ReadAfterWrite == (lastOp.op = "read" /\ lastOp.expect # None) => lastOp.ret = lastOp.expect

\* C2: a polling pass creates no StateChange for a point whose cached value
\* was last set by a write, the hardware not having changed the point since;
\* the write's own StateChange stays the only one.
C2_NoPollReEmit == \A i \in 1..Len(events) : events[i].src # "write" => ~events[i].latched

\* C3: a configure_from_dict call that returns False leaves points and
\* critical_points as they were when it was called (pre), and its returning
\* step leaves current_states alone.
C3_ConfigureAtomic == [][(cfgRet' = "false" /\ (cfgRet # "false" \/ cnt'.cfg # cnt.cfg)) => (points' = pre'.points /\ critical_points' = pre'.critical /\ current_states' = current_states)]_vars

C6_LastWriteWins ==
    /\ \A i, j \in 1..Len(drainCalls) : drainCalls[i].name = drainCalls[j].name => i = j
    /\ \A i \in 1..Len(drainCalls) : drainCalls[i].value = drainCalls[i].expect

C6_Witness == \E i \in 1..Len(drainCalls) : drainCalls[i].n >= 2 /\ drainCalls[i].value = drainCalls[i].expect

\* C7: stop closes the backends only once the scheduler task is over, and
\* when stop has returned (the first time or again) _running is false,
\* _polling_task is None, the task is not executing and every backend is closed.
C7_StopJoinsThenCloses ==
    /\ ctl.pc = "stop_close" => (~_running /\ _polling_task = None /\ ~SchedLive)
    /\ (ctl.pc = "idle" /\ ctl.last = "stop") => (~_running /\ _polling_task = None /\ ~SchedLive /\ closed = backends)

C7_Witness == ctl.pc = "idle" /\ ctl.last = "stop" /\ cnt.stop = 2 /\ pt.pc = "done" /\ "simulator" \in closed

\* C8: a scheduler task exists only after a configure_from_dict call has
\* returned True, and never while a backend is closed.
C8_Lifecycle == _polling_task # None => (cfgEverOk /\ closed = {})

\* C9: every StateChange has old_value # new_value, and a batch handed to
\* _notify_changes by a polling pass is never empty.
C9_RealChanges ==
    /\ \A i \in 1..Len(events) : events[i].old # events[i].new
    /\ lastBatch.emitted => lastBatch.changes # {}

C9_Witness == lastBatch.emitted /\ \E i \in lastBatch.changes : events[i].src \in {"crit", "norm"} /\ events[i].old # None

\* C10: a callback receives the StateChanges of one point in the order of
\* their timestamps (their index in events).
C10_PerPointOrder ==
    \A cb \in 1..Len(received) : \A a, b \in 1..Len(received[cb]) :
        a < b => \A e1 \in received[cb][a], e2 \in received[cb][b] : events[e1].point = events[e2].point => e1 <= e2

\* C11: a polling pass in which a backend's read raised still applies every
\* value the other backends returned and creates a StateChange for each that
\* differs, leaves the failing backend's points at their cached values, and
\* goes on in _polling_loop.
C11_ReadIsolation ==
    [][(pt.pc \in {"proc", "lock"} /\ pt'.pc \notin {"proc", "lock"} /\ ~pt.cancel /\ pt.failed # {})
       => LET reported == {n \in DOMAIN pt.returned : pt.sec = "crit" => n \in critical_points}
          IN /\ \A n \in reported : n \in DOMAIN current_states' /\ current_states'[n] = pt.returned[n]
             /\ \A n \in reported : (n \in DOMAIN points /\ Get(current_states, n) # pt.returned[n]) => \E i \in (Len(events) + 1)..Len(events') : events'[i].point = n /\ events'[i].new = pt.returned[n]
             /\ \A n \in DOMAIN current_states : BackendNameFor(points, n) \in pt.failed => current_states'[n] = current_states[n]
             /\ pt'.pc \in {"notify", "read", "drain_wait", "sleep"}]_vars

C11_Witness == pt.pc = "notify" /\ pt.failed = {"mcp"} /\ pt.batch # {} /\ \E i \in pt.batch : events[i].src # "write" /\ current_states[events[i].point] = events[i].new

\* where the notification of the batch holding event e stands: the index of the
\* callback being run, 0 when no notification of it is under way
C12_Position(e) == IF pt.pc = "notify" /\ e \in pt.batch THEN pt.ni ELSE IF caller.pc = "w_notify" /\ e \in caller.batch THEN caller.ni ELSE 0
\* how often callback i has run with event e, and whether it is queued to run
C12_Times(i, e) == Cardinality({k \in 1..Len(received[i]) : e \in received[i][k]})
C12_Queued(i, e) == \E j \in jobs : j.cb = i /\ e \in j.batch

CMCalled(op) == cm_calls' = cm_calls + 1 /\ cm_last'.op = op

HistoryRecords(change_type) ==
    \E i \in 1..Len(cm_history) :
        \E k \in 1..Len(cm_history[i].changes_since_last) :
            cm_history[i].changes_since_last[k].change_type = change_type

\* C13: rollback undoes an add. When add_io_point(x) succeeded from version v0
\* and the next call is rollback_to_version(v0), the rollback succeeds, the
\* current configuration does not hold x, and the history holds a snapshot
\* recording an 'add' and one recording a 'rollback'.
C13_RollbackUndoesAdd ==
    (/\ cm_last.op = "rollback"
     /\ cm_last.before.op = "add"
     /\ cm_last.before.ret
     /\ cm_last.v = cm_last.before.ver)
    => (/\ cm_last.ret
        /\ cm_last.before.name \notin PointNames(IoPointsOf(cm_config))
        /\ HistoryRecords("add")
        /\ HistoryRecords("rollback"))

PointSet(io_points) == {io_points[i] : i \in 1..Len(io_points)}

\* C14: rollback_to_version(v) with v the manager's current version, called
\* after a successful add, remove, modify or rollback, succeeds, leaves the set
\* of I/O points of current_config as it was and increases the version by one.
C14_RollbackToCurrent ==
    (/\ cm_last.op = "rollback"
     /\ cm_last.v = cm_last.ver
     /\ cm_last.before.op \in {"add", "remove", "modify", "rollback"}
     /\ cm_last.before.ret)
    => (/\ cm_last.ret
        /\ PointSet(IoPointsOf(cm_config)) = PointSet(cm_last.pts)
        /\ cm_version = cm_last.ver + 1)

\* a point configuration that names a point: name, a valid io_type, hardware_ref
IsPoint(pc) == pc.name # Missing /\ pc.hardware_ref # Missing /\ pc.io_type \in IoTypes

\* add_io_point(x) was called and remove_io_point(x.name) was the next call
AddThenRemove ==
    /\ cm_last.op = "remove"
    /\ cm_last.before.op = "add"
    /\ cm_last.name = cm_last.before.name

\* C15: for a point x whose name is not in current_config, add_io_point(x)
\* followed by remove_io_point(x.name) both succeed, the list of I/O points is
\* the list before the add, and the version is two higher.
C15_AddRemove ==
    (/\ AddThenRemove
     /\ IsPoint(cm_last.before.pc)
     /\ cm_last.before.name \notin PointNames(cm_last.before.pts))
    => (/\ cm_last.before.ret
        /\ cm_last.ret
        /\ IoPointsOf(cm_config) = cm_last.before.pts
        /\ cm_version = cm_last.before.ver + 2)

C15_Witness ==
    /\ AddThenRemove
    /\ cm_last.before.ret
    /\ cm_last.ret
    /\ cm_last.before.pts # <<>>
    /\ cm_version = cm_last.before.ver + 2

\* the cases in which a call of op is to be refused, read off the state it starts from
MustFail(op, name, pc, v) ==
    LET names == PointNames(IoPointsOf(cm_config))
    IN  CASE op = "add" -> ~IsPoint(pc) \/ name \in names
          [] op = "remove" -> name \notin names
          [] op = "modify" -> ~IsPoint(pc) \/ name \notin names
          [] op = "rollback" -> \A i \in 1..Len(cm_history) : cm_history[i].version # v

\* history' is history with exactly one more snapshot created (the oldest
\* dropped when the limit was reached)
OneSnapshotMore(history, history2) ==
    /\ history2 # <<>>
    /\ LET added == Append(history, history2[Len(history2)])
       IN  \/ history2 = added
           \/ Len(history) = HistoryLimit /\ history2 = Tail(added)

\* C16: versioning of runtime mutations. A successful add_io_point,
\* remove_io_point, modify_io_point or rollback_to_version increases the version
\* by exactly 1 and appends exactly one snapshot; a failing call (invalid point
\* structure, name already present on add, name absent on remove or modify,
\* version absent on rollback) leaves version, current_config and history
\* unchanged and notifies no callback.
C16_Versioning ==
    [][\A op \in {"add", "remove", "modify", "rollback"} :
        CMCalled(op) =>
            /\ cm_last'.ret = ~MustFail(op, cm_last'.name, cm_last'.pc, cm_last'.v)
            /\ cm_last'.ret =>
                /\ cm_version' = cm_version + 1
                /\ OneSnapshotMore(cm_history, cm_history')
            /\ ~cm_last'.ret =>
                /\ UNCHANGED <<cm_version, cm_config, cm_history>>
                /\ cm_last'.notified = 0]_vars

C16_Witness ==
    /\ cm_last.op = "modify"
    /\ ~cm_last.ret
    /\ cm_last.pc = CBadType
    /\ cm_last.name \in PointNames(IoPointsOf(cm_config))
    /\ cm_callbacks >= 1
    /\ cm_last.before.ret
    /\ cm_last.before.op = "rollback"
    /\ Len(cm_history) = 2

\* C17: the snapshot history never holds more than 50 snapshots; when a
\* snapshot is created while 50 are held, the oldest one is dropped and the
\* newest 50 are kept in creation order.
C17_HistoryBounded ==
    /\ [](Len(cm_history) <= 50)
    /\ [][(cm_history' # cm_history /\ Len(cm_history) = 50) =>
            /\ Len(cm_history') = 50
            /\ \A i \in 1..49 : cm_history'[i] = cm_history[i + 1]
            /\ cm_history'[50].version = cm_version
            /\ cm_history'[50].config = cm_config']_vars

C17_Witness ==
    /\ Len(cm_history) = 50
    /\ cm_history[1].version = MaxOverflow
    /\ cm_history[50].version = 49 + MaxOverflow

\* names pairwise distinct and hardware_refs pairwise distinct
UniquePoints(io_points) ==
    \A i, j \in 1..Len(io_points) :
        i # j => /\ io_points[i].name # io_points[j].name
                 /\ io_points[i].hardware_ref # io_points[j].hardware_ref

\* C18: uniqueness is preserved by runtime mutation. A successful add_io_point,
\* modify_io_point or remove_io_point on a current_config whose points have
\* pairwise distinct names and pairwise distinct hardware_refs leaves the
\* points with pairwise distinct names and pairwise distinct hardware_refs.
C18_UniquenessKept ==
    [][\A op \in {"add", "modify", "remove"} :
        (CMCalled(op) /\ cm_last'.ret /\ UniquePoints(IoPointsOf(cm_config)))
        => UniquePoints(IoPointsOf(cm_config'))]_vars

\* write_pin(p, v) was called with a valid pin and is at its call of write_port
WritePinEntered == chip_call.op = "write_pin" /\ chip_call.pc = "write_pin"

\* write_pin(p, v) returned; it put one write on the bus, of the port's byte
\* with bit p set to v and the other bits as cached before, to the port's GPIO
\* register; read_pin(p) is v and read_pin(q) is what it was for every other pin
WritePinRoundTrip ==
    /\ chip_call.op = "write_pin"
    /\ chip_call.pc = "idle"
    /\ chip_call.ret = "ok"
    /\ LET p == chip_call.pin
           port == PortOf(chip.kind, p)
       IN  /\ Len(bus) = 1
           /\ bus[1].register = GpioRegister(chip.kind, port)
           /\ \A k \in 0..7 :
                MaskSet(bus[1].value, 2 ^ k) =
                    IF k = p % 8 THEN chip_call.value
                    ELSE MaskSet(chip_call.ports[port], 2 ^ k)
           /\ CachedPin(chip.kind, chip.ports, p) = chip_call.value
           /\ \A q \in ChipPins :
                (ValidPin(chip.kind, q) /\ q # p) =>
                    CachedPin(chip.kind, chip.ports, q) = CachedPin(chip.kind, chip_call.ports, q)

\* C19: expander chip pin round trip. For every valid pin p and boolean v,
\* write_pin(p, v) completes, issues one write of the updated port byte to that
\* port's GPIO register, and afterwards read_pin(p) returns v while read_pin(q)
\* is unchanged for every other pin q (MCP23017 and MCP23008).
C19_PinRoundTrip == WritePinEntered ~> WritePinRoundTrip

\* the register writes the MCP23017 is to see, in order
ExpectedInit(config) ==
    <<BusWrite(IODIRA, 255), BusWrite(IODIRB, 255)>>
    \o (IF config.pull_ups THEN <<BusWrite(GPPUA, 255), BusWrite(GPPUB, 255)>> ELSE <<>>)
    \o (IF config.polarity_inversion THEN <<BusWrite(IPOLA, 255), BusWrite(IPOLB, 255)>> ELSE <<>>)
    \o (IF config.sequential_operation THEN <<BusWrite(IOCONA, 32), BusWrite(IOCONB, 32)>> ELSE <<>>)
    \o (IF config.interrupt_pin # None
        THEN <<BusWrite(GPINTENA, 255), BusWrite(GPINTENB, 255)>>
             \o <<BusWrite(INTCONA, 0), BusWrite(INTCONB, 0)>>
        ELSE <<>>)

IsPrefix(s, t) == Len(s) <= Len(t) /\ s = SubSeq(t, 1, Len(s))

\* C20: chip initialization issues its register writes in a fixed order:
\* IODIRA, IODIRB = 0xFF, then (pull_ups) GPPUA, GPPUB = 0xFF, then
\* (polarity_inversion) IPOLA, IPOLB = 0xFF, then (sequential_operation) IOCONA,
\* IOCONB = 0x20, then (interrupt_pin set) GPINTENA, GPINTENB = 0xFF and INTCONA,
\* INTCONB = 0x00. A second initialize after success issues no bus write, and a
\* bus error during the sequence leaves the chip not initialized.
C20_InitOrder ==
    chip_call.op = "initialize" =>
        /\ chip.kind = "mcp23017" => IsPrefix(bus, ExpectedInit(chip.config))
        /\ (chip.kind = "mcp23017" /\ chip_call.pc = "idle" /\ chip_call.ret = "ok"
                /\ ~chip_call.was_initialized)
            => (bus = ExpectedInit(chip.config) /\ chip._initialized)
        /\ chip_call.was_initialized
            => (bus = <<>> /\ chip_call.pc = "idle" /\ chip_call.ret = "ok" /\ chip._initialized)
        /\ chip_call.ret = "OSError" => (~chip._initialized /\ ~chip._lock)

C20_Witness ==
    /\ chip.kind = "mcp23017"
    /\ chip_call.op = "initialize"
    /\ chip_call.pc = "idle"
    /\ chip_call.ret = "ok"
    /\ chip_cnt.errors = 1
    /\ Len(bus) = 12
    /\ chip._initialized

\* every queued pair is on the bus once, each register's values in the order queued
AllIssued(queued, onBus) ==
    /\ \A r \in DevRegisters :
        LET blocks == SelectSeq(onBus, LAMBDA b : b.register = r)
        IN  IF ValuesFor(queued, r) = <<>> THEN blocks = <<>>
            ELSE Len(blocks) = 1 /\ blocks[1].values = ValuesFor(queued, r)
    /\ \A i \in 1..Len(onBus) : onBus[i].register \in DevRegisters

\* flush_batch or close was called with pairs pending
DrainCalled ==
    /\ dev_call.op \in {"flush_batch", "close"}
    /\ dev_call.pc = "process_batch"
    /\ dev._pending_writes # <<>>

\* the call returned with the queue empty and every queued value on the bus;
\* after close the worker is shut down and the bus handle released
DrainCompleted ==
    /\ dev_call.op \in {"flush_batch", "close"}
    /\ dev_call.pc = "idle"
    /\ dev_call.ret = "ok"
    /\ dev._pending_writes = <<>>
    /\ AllIssued(dev_call.queued, dev_bus)
    /\ dev_call.op = "close" => (dev.shutdown /\ dev.closed)

\* C21: transport close with pending batched writes terminates. If one or more
\* (register, value) pairs are queued by batch_write_byte, then flush_batch()
\* and close() eventually complete, with the pending queue empty and every
\* queued value issued to the bus before the worker is shut down and the bus
\* handle released.
C21_CloseTerminates == DrainCalled ~> DrainCompleted

\* the batch_write_byte call that brought the queue to the batch size
BatchFull ==
    /\ dev_call.op = "batch_write_byte"
    /\ dev_call.pc = "process_batch"
    /\ Len(dev._pending_writes) = 16

\* that call returned, the queue drained, the values on the bus
BatchDrained ==
    /\ dev_call.op = "batch_write_byte"
    /\ dev_call.pc = "idle"
    /\ dev_call.ret = "ok"
    /\ Len(dev_call.queued) = 16
    /\ dev._pending_writes = <<>>
    /\ AllIssued(dev_call.queued, dev_bus)

\* C22: transport batching. The batch_write_byte call that brings the pending
\* queue to the configured batch size (16) drains the queue and returns; for
\* each register the values queued for it reach the bus in the order they were
\* enqueued, and no queued value is dropped or duplicated.
C22_BatchDrains == BatchFull ~> BatchDrained

\* C23: expander point-id round trip. Every point id that read_all_points
\* returns (mcp<chip address in hex>_<pin>) is accepted by read_point and
\* write_point of the same initialized backend and resolves to the chip at that
\* address and that pin number.
C23_PointIdRoundTrip ==
    (mb_last.op \in {"read_point", "write_point"} /\ mb_last.id \in mb_ids) =>
        /\ mb_last.ret = "resolved"
        /\ mb_last.address \in mb_chips
        /\ mb_last.id = PointIdOf(mb_last.address, mb_last.pin)

\* a point the backend does not own, or an input point
NotWritablePoint(point_id) ==
    \/ point_id \notin DOMAIN SamplePoints
    \/ SamplePoints[point_id] \in {"digital_input", "analog_input"}

\* C24: a backend's write_point fails for a point it does not own and for an
\* input point: the call reports failure (ValueError and an error count of 1
\* in the simulated backend's tests) and the backend's stored value map is
\* unchanged by the failed call.
C24_WriteFails ==
    (/\ sbk_last.op = "write_point"
     /\ sbk_last.ret # "RuntimeError"
     /\ NotWritablePoint(sbk_last.point_id))
    => (/\ sbk_last.ret = "ValueError"
        /\ sbk._error_count >= 1
        /\ sbk._states = sbk_last.states)

\* ---- validation
ValidateCalled == vl.op = "validate_io_config"
IssuesOfLevel(issues, level) == {issues[k] : k \in {j \in 1..Len(issues) : issues[j].level = level}}
IssuesOfCategory(issues, category) ==
    {issues[k] : k \in {j \in 1..Len(issues) : issues[j].category = category}}

\* C25: validate_io_config answers is_valid = true exactly when the issue list
\* it returns holds no issue of level ERROR; a list of warnings and info issues
\* alone never makes the configuration invalid.
C25_ValidIffNoError ==
    ValidateCalled =>
        /\ vl.is_valid = (IssuesOfLevel(vl.issues, "error") = {})
        /\ (\A k \in 1..Len(vl.issues) : vl.issues[k].level \in {"warning", "info"}) => vl.is_valid
C25_Witness ==
    /\ ValidateCalled
    /\ vl.is_valid
    /\ \E k \in 1..Len(vl.issues) :
        vl.issues[k].level = "warning" /\ vl.issues[k].category = "type_mismatch"
    /\ \E k \in 1..Len(vl.issues) :
        vl.issues[k].level = "warning" /\ vl.issues[k].category = "safety"

\* the points of the list that repeat the value an earlier point has in field
Repeats(io_points, field) ==
    {i \in 1..Len(io_points) : \E j \in 1..Len(io_points) :
        j < i /\ io_points[j][field] = io_points[i][field]}
\* one error of the category for each repeating point, at that point's index
OneErrorEach(issues, io_points, field, category) ==
    /\ \A i \in Repeats(io_points, field) :
        \E k \in 1..Len(issues) :
            /\ issues[k].level = "error" /\ issues[k].category = category
            /\ issues[k].path = [index |-> i - 1, field |-> field]
            /\ issues[k].message.arg = io_points[i][field]
    /\ Cardinality({k \in 1..Len(issues) : issues[k].category = category})
           = Cardinality(Repeats(io_points, field))

\* C26: for a schema-valid configuration the validator reports one
\* duplicate_name error for each point that repeats the name of an earlier
\* point and one duplicate_hardware error for each point that repeats the
\* hardware_ref of an earlier point, and the configuration is invalid exactly
\* when two points share a name or a hardware_ref.
C26_Duplicates ==
    (ValidateCalled /\ SchemaValid(vl.config)) =>
        LET io_points == vl.config["io_points"]
        IN  /\ OneErrorEach(vl.issues, io_points, "name", "duplicate_name")
            /\ OneErrorEach(vl.issues, io_points, "hardware_ref", "duplicate_hardware")
            /\ (~vl.is_valid) = (Repeats(io_points, "name") # {} \/ Repeats(io_points, "hardware_ref") # {})
C26_Witness ==
    /\ ValidateCalled /\ SchemaValid(vl.config)
    /\ Len(vl.config["io_points"]) = 3
    /\ Repeats(vl.config["io_points"], "name") = {3}
    /\ Repeats(vl.config["io_points"], "hardware_ref") = {}
    /\ ~vl.is_valid

\* the lists that hold the same points in another order
PermutationsOf(io_points) ==
    {[i \in 1..Len(io_points) |-> io_points[f[i]]] : f \in Permutations(1..Len(io_points))}

\* C27: two schema-valid configurations whose io_points lists are permutations
\* of each other get the same set of ERROR issues from validate_config, equal
\* in level, category, message and path.
C27_OrderIndependent ==
    (ValidateCalled /\ SchemaValid(vl.config)) =>
        \A other \in PermutationsOf(vl.config["io_points"]) :
            IssuesOfLevel(validate_config([x \in {"io_points"} |-> other]), "error")
                = IssuesOfLevel(vl.issues, "error")

GateCalled == gate.op = "configure_from_dict"

\* C28: through the gate, configure_from_dict(c) answers false and never calls
\* the manager's own configure_from_dict when c has an ERROR issue; when c has
\* none it calls the manager's own configure_from_dict once with c and answers
\* what that call answered.
C28_Gate ==
    GateCalled =>
        IF IssuesOfLevel(validate_config(gate.config), "error") # {}
        THEN gate.ret = FalseV /\ gate.original_calls = <<>>
        ELSE gate.original_calls = <<gate.config>> /\ gate.ret = gate.original_ret
C28_Witness ==
    /\ GateCalled
    /\ IssuesOfCategory(validate_config(gate.config), "duplicate_hardware") # {}
    /\ gate.ret = FalseV /\ gate.original_calls = <<>>
C28_WitnessPassed ==
    /\ GateCalled
    /\ gate.original_calls = <<gate.config>> /\ gate.ret = TrueV

\* ---- operations before any configuration
\* a read or write call that returns in the step it is made, on a manager that
\* holds a backend and has seen no configure call
CallBeforeConfigure ==
    /\ cnt'.ops = cnt.ops + 1 /\ caller.pc = "idle" /\ caller'.pc = "idle"
    /\ lastOp'.op \in {"read", "write"}
    /\ backends # {} /\ cnt.cfg = 0

\* C29: on a manager that has a backend but was never configured, read(name)
\* raises an error and write(name, value) raises an error.
C29_RaisesUnconfigured == [][CallBeforeConfigure => lastOp'.ret = "raise"]_vars

\* ---- order inside one scheduler iteration
\* every registered callback has been handed the change
Delivered(e) == \A i \in 1..Len(change_callbacks) : \E k \in 1..Len(received[i]) : e \in received[i][k]
\* a step of the scheduler task that starts the normal pass / runs the drain
NormalPassStarts == pt'.pc = "read" /\ pt'.sec = "norm" /\ ~(pt.pc = "read" /\ pt.sec = "norm")
DrainRuns == pt' # pt /\ pt'.pc \in {"sleep", "drain_wait"} /\ pt.pc \in {"new", "sleep", "proc", "lock", "notify"}
\* the scheduler is at the top of its loop and a further iteration begins
IterationBegins(critDue, normDue) == _running /\ SchedIter(critDue, normDue)
\* a polling pass of this iteration is still to finish
InPass(sec) == pt.pc \in {"read", "proc", "lock", "notify"} /\ pt.sec = sec

C30_Order ==
    \* both tiers due: the critical pass is what the iteration starts with
    /\ (IterationBegins(TRUE, TRUE) /\ critical_points # {} /\ CriticalBackends # {})
           => (pt'.pc = "read" /\ pt'.sec = "crit")
    \* the normal pass starts at the top of the loop or once the critical pass
    \* has finished and every change it found has reached every callback
    /\ NormalPassStarts
           => /\ pt.pc \in {"new", "sleep"} \/ (InPass("crit") /\ pt.pc # "read")
              /\ \A e \in 1..Len(events') : events'[e].src = "crit" => Delivered(e)'
    \* the drain takes every pending write, and it runs with no pass left to do
    /\ DrainRuns
           => /\ _pending_writes' = EmptyDict
              /\ \A n \in DOMAIN _pending_writes :
                    BackendNameFor(points, n) \in backends
                        => \E i \in 1..Len(drainCalls') :
                              drainCalls'[i].name = n /\ drainCalls'[i].value = _pending_writes[n]
              /\ InPass("crit") => ~(pt.normDue /\ backends # {})
              /\ \A critDue \in BOOLEAN : ~(IterationBegins(critDue, TRUE) /\ backends # {})
    \* an iteration ends, and the next begins, only through the drain
    /\ (pt'.pc = "sleep" /\ pt.pc # "sleep") => (DrainRuns \/ pt.pc = "drain_wait")
    /\ (pt'.pc = "drain_wait" /\ pt.pc # "drain_wait") => DrainRuns
    \* no pass due: the iteration is the drain alone
    /\ (IterationBegins(FALSE, FALSE) /\ pt' # pt) => DrainRuns

\* C30: when both polling intervals have elapsed the critical pass runs first
\* and its changes are delivered before the normal pass starts; the drain of
\* the pending writes runs after both passes, and in every iteration, also in
\* one where no pass was due.
C30_IterationOrder == [][C30_Order]_vars
\* the drain of an iteration whose normal pass reported a change, after a
\* critical pass had reported one, sends a pending write
C30_Witness ==
    /\ pt.pc = "drain_wait" /\ pt.sec = "norm"
    /\ drainCalls # <<>>
    /\ change_callbacks # <<>>
    /\ \E e \in 1..Len(events) : events[e].src = "crit" /\ Delivered(e)
    /\ \E e \in lastBatch.changes : events[e].src = "norm"

\* ---- errors inside the polling loop
StopCalled == cnt.stop > 0
\* an await of the scheduler task has just met an exception: a read of the
\* pass raised, a write_point of the drain raised and left its siblings behind,
\* or the callback being notified raises
ReadRaised == pt.pc = "proc" /\ pt.failed # {}
DrainRaised == pt.pc = "drain_wait" /\ \E w \in wtasks : w.orphan
CallbackRaises == pt.pc = "notify" /\ change_callbacks[pt.ni] \in RaisingKinds
LoopError == ReadRaised \/ DrainRaised \/ CallbackRaises

\* C31: the scheduler task ends only after a stop call; a read, a write_point
\* of the drain or a callback that raises does not end the polling loop: the
\* iteration reaches its sleep (through the drain) and a later iteration polls
\* again, unless stop is called first.
C31_OnlyStopEnds ==
    /\ [](pt.pc = "done" => StopCalled)
    /\ (LoopError ~> (StopCalled \/ pt.pc = "sleep"))
    /\ (pt.pc = "sleep" ~> (StopCalled \/ pt.pc = "read"))
C31_Witness ==
    /\ pt.pc = "read" /\ ~StopCalled
    /\ pt.failed = {}
    /\ lastBatch.emitted
    /\ \E i \in 1..Len(received) : received[i] # <<>>
    /\ \E i \in 1..Len(drainCalls) : drainCalls[i].name = "m1"

\* ---- the critical pass
\* the step in which a critical pass, back from its reads, processes them
CriticalPassProcesses == pt.sec = "crit" /\ pt.pc \in {"proc", "lock"} /\ pt'.pc \notin {"proc", "lock", "done"}

\* C32: the critical pass creates StateChanges only for names in
\* critical_points and leaves the current_states entry of every other name as
\* it was, whatever read_all reported for that name.
C32_CriticalOnly ==
    [][CriticalPassProcesses =>
        /\ \A n \in Names \ critical_points :
            /\ (n \in DOMAIN current_states') = (n \in DOMAIN current_states)
            /\ Get(current_states', n) = Get(current_states, n)
        /\ \A e \in (Len(events) + 1)..Len(events') :
            events'[e].point \in critical_points /\ events'[e].src = "crit"]_vars
C32_Witness ==
    /\ pt.sec = "norm" /\ pt.pc = "read"
    /\ events # <<>> /\ events[Len(events)].src = "crit"
    /\ "out1" \in DOMAIN sim_state /\ "out1" \in DOMAIN current_states
    /\ "out1" \notin critical_points
    /\ sim_state["out1"] # current_states["out1"]

\* ---- configure_pin
\* bit b of a register byte
Bit(byte, b) == (byte \div (2 ^ b)) % 2
\* byte new is byte old with bit b made v and every other bit as it was
OnlyBitChanged(old, new, b, v) ==
    /\ new \in 0..255
    /\ \A k \in 0..7 : Bit(new, k) = IF k = b THEN v ELSE Bit(old, k)

C34_TaskReferenced ==
    \A t \in 1..Len(lc_tasks) : lc_tasks[t] = "running" => lc_polling_task = t
\* ---- accepted writes
\* write(p, v) returned True and v waits in the pending map
AcceptedPending(p) == p \in DOMAIN _pending_writes /\ lastAcc[p].value = _pending_writes[p]
\* the drain has called write_point for p with the value accepted last
WritePointCalled(p) ==
    /\ p \notin DOMAIN _pending_writes
    /\ \E i \in 1..Len(drainCalls) :
        drainCalls[i].name = p /\ drainCalls[i].value = lastAcc[p].value

\* C35: every write that returned True leads to a write_point call of the
\* owning backend for that point with the value accepted last.
C35_NoWriteLost == \A p \in Names : AcceptedPending(p) ~> WritePointCalled(p)
\* ---- write_points
\* the items of the call that name a pin of the chip's port
ItemsOf(address, port) ==
    {i \in 1..Len(wp_call.points) :
        LET found == _get_chip_and_pin(DOMAIN wp_call.before, wp_call.points[i].id)
        IN  found.address = address /\ (IF found.pin < 8 THEN "A" ELSE "B") = port}
\* the write_port calls of the call for the chip's port
WritesOf(address, port) ==
    {k \in 1..Len(wp_call.writes) : wp_call.writes[k].address = address /\ wp_call.writes[k].port = port}

\* C37: a write_points call that returns writes, for every chip and port with
\* a named pin, a byte whose named pins have the requested values and whose
\* other pins have their cached values, and writes no port without a named pin.
C37_OnlyNamedPins ==
    (wp_call.op = "write_points" /\ wp_call.ret = "ok") =>
        \A address \in DOMAIN wp_call.before : \A port \in {"A", "B"} :
            IF ItemsOf(address, port) = {}
            THEN WritesOf(address, port) = {}
            ELSE /\ WritesOf(address, port) # {}
                 /\ \A k \in WritesOf(address, port) : \A b \in 0..7 :
                        Bit(wp_call.writes[k].value, b) =
                            IF \E i \in ItemsOf(address, port) :
                                   _get_chip_and_pin(DOMAIN wp_call.before, wp_call.points[i].id).pin % 8 = b
                            THEN LET i == CHOOSE i \in ItemsOf(address, port) :
                                              _get_chip_and_pin(DOMAIN wp_call.before, wp_call.points[i].id).pin % 8 = b
                                 IN  IF wp_call.points[i].value THEN 1 ELSE 0
                            ELSE Bit(wp_call.before[address][port], b)

\* C36: no chip or transport operation ever waits for a non-reentrant lock
\* that its own task holds. One sequential caller drives the chip and one the
\* transport, so the holder of a lock a call finds taken is that call itself:
\* no call is ever waiting for the chip's _lock, the transport's _lock or the
\* transport's _batch_lock.
SelfWaits == {"wait_lock", "wait_batch_lock"}

C36_NoSelfWait ==
    /\ chip_call.pc \notin SelfWaits
    /\ dev_call.pc \notin SelfWaits

\* C38: every name in critical_points and every key of current_states is a
\* key of points, whatever configure_from_dict calls, reads, writes and
\* polling passes came before.
C38_RegistryConsistent ==
    /\ critical_points \subseteq DOMAIN points
    /\ DOMAIN current_states \subseteq DOMAIN points

\* C39: the versions of the stored snapshots are strictly increasing in
\* history order, and a snapshot a call stores pairs a version with the
\* configuration that was current under that version: the version and
\* configuration the call found, or the version and configuration it left.
VersionsIncrease(history) ==
    \A i, j \in 1..Len(history) : i < j => history[i].version < history[j].version

SnapshotStored == cm_history' # cm_history

Newest(history) == history[Len(history)]

C39_VersionsIdentify ==
    /\ [](VersionsIncrease(cm_history))
    /\ [][SnapshotStored =>
            \/ /\ Newest(cm_history').version = cm_version
               /\ Newest(cm_history').config = cm_config
            \/ /\ Newest(cm_history').version = cm_version'
               /\ Newest(cm_history').config = cm_config']_vars

\* C40: the StateChanges created for one configured point, in creation order,
\* form a chain: each one's old_value is the new_value of the one before it,
\* and the new_value of the latest is the point's value in current_states.
EventsOf(p) == SelectSeq(events, LAMBDA e : e.point = p)

C40_EventChain ==
    \A p \in DOMAIN points :
        LET es == EventsOf(p)
        IN  /\ \A i \in 1..(Len(es) - 1) : es[i].new = es[i + 1].old
            /\ es # <<>> => /\ p \in DOMAIN current_states
                            /\ es[Len(es)].new = current_states[p]

\* a point changed by a write and then by a polling pass, and one changed by
\* a polling pass and then by a write
C40_Witness ==
    /\ \E p \in DOMAIN points :
         \E i \in 1..(Len(EventsOf(p)) - 1) :
            EventsOf(p)[i].src = "write" /\ EventsOf(p)[i + 1].src # "write"
    /\ \E p \in DOMAIN points :
         \E i \in 1..(Len(EventsOf(p)) - 1) :
            EventsOf(p)[i].src # "write" /\ EventsOf(p)[i + 1].src = "write"

====
